---- MODULE Spec2Model ----
(***************************************************************************)
(* Account orchestration (register / verify_otp / resend_otp / login /     *)
(* login_with_oauth) over the account repository and the Redis-backed OTP  *)
(* service.  Every request handler is a process; each action is the code   *)
(* between two awaits of the handler, so handlers of different requests    *)
(* interleave exactly at the awaits.  Spec interleaves the handlers of     *)
(* concurrent requests for one email; SeqSpec runs one request at a time   *)
(* over two emails; OtpSpec calls the OTP service directly, one call at a  *)
(* time, next to register and verify_otp, lets the clock run past the      *)
(* time-to-live and lets the Redis server go away (in Spec and SeqSpec it  *)
(* always answers); OAuthSpec runs the OAuth start and callback routes, one *)
(* request at a time, over deployments with and without the providers'     *)
(* client settings, with the clock running past the life of a state token. *)
(* inbox .. live, minted, mintedFor are history variables: they record what        *)
(* happened and decide nothing in a handler.                               *)
(***************************************************************************)
EXTENDS Integers, Sequences, FiniteSets, TLC

\* ---- bounds of the model ----
\* handler slots; requests per run in SeqSpec, in Spec, in OtpSpec and in OAuthSpec; state
\* tokens handed out per run in OAuthSpec; calls per run in MailSpec and in GenerateSpec and
\* the longest code generate_otp is asked for there; seconds per clock tick
NumProcs == 2
MaxCalls == 3
MaxRaceCalls == 3
MaxOtpCalls == 4
MaxOAuthCalls == 3
MaxMinted == 1
MaxUtilCalls == 1
MaxRepoCalls == 3
MaxLength == 2
TickStep == 60

\* ---- program constants ----
OTP_EXPIRE_SECONDS == 120
ACCESS_TOKEN_EXPIRE_MINUTES == 30
OAUTH_STATE_TTL_SECONDS == 600
SECRET_KEY == "secret-key"

\* the clock runs for one OTP time-to-live
MaxTime == OTP_EXPIRE_SECONDS
\* in OtpSpec it runs one tick longer, so that a code outlives its time-to-live
MaxOtpTime == OTP_EXPIRE_SECONDS + TickStep
\* in OAuthSpec it advances by the life of a state token, to twice that life
StateTick == OAUTH_STATE_TTL_SECONDS
MaxStateTime == 2 * OAUTH_STATE_TTL_SECONDS

Procs == 1..NumProcs
None == "None"
Emails == {"a@x.com", "b@x.com"}
RaceEmails == {"a@x.com"}
RacePasswords == {"pw"}
RaceProviderIds == {"1"}
Passwords == {"pw", "other"}
Codes == {"000123", "654321"}
Providers == {"google", "github"}
ProviderIds == {"1", "2"}
\* what the providers' user-info endpoints answer: Google's "sub" is a string, GitHub's "id" a number;
\* None and 0 are the values Python takes for false
GoogleSubs == {None, "1", "2"}
GithubIds == {0, 1, 2}
\* nonces secrets.token_urlsafe can draw, and nonces only a client can write
Nonces == {"nonce-1", "nonce-2"}
NonAsciiNonces == {"nonce-with-a-non-ascii-character"}
\* the ways a client changes a state token before it sends it back
Tamperings == {"none", "flip_sig", "other_nonce", "later_ts", "later_ts_resigned", "padded_ts",
               "junk_ts", "two_parts", "four_parts", "non_ascii", "still_quoted"}
RedirectOverrides == {None, "https://app/override"}

VARIABLES
  users,      \* rows of the users table
  nextId,     \* next primary key of the users table
  redis,      \* the expiring key/value store: email -> [code, exp], live keys only
  now,        \* wall clock, seconds
  pc,         \* position of each request handler
  req,        \* payload of each request
  loc,        \* local variables of each handler
  result,     \* what the handler returned or raised
  calls,      \* requests started so far
  inbox,      \* codes that send_otp_email delivered, per email
  issued,     \* codes that issue_otp stored, per email
  accepts,    \* codes for which validate_otp returned True since the last issue_otp, per email
  otpVerified,\* emails for which validate_otp returned True for an issued code
  fresh,      \* per email: the delivered code still awaiting verification, and when it was delivered
  undelivered,\* emails whose register call ended in a delivery failure
  verifiedBy, \* per email: which call delivered the code that verify_otp accepted and committed
  live,       \* per email: the code of the latest issue_otp not yet consumed or invalidated, when it
              \* was issued, the live code that issue overwrote, and whether a wrong guess followed
  redisUp,    \* whether the Redis server answers
  settings,   \* the OAuth client settings of the deployment
  minted,     \* the state tokens generate_state has produced
  mintedFor,  \* for which provider and redirect override each state token was handed out
  frac,       \* half seconds of the wall clock beyond now
  smtp,       \* the SMTP settings of the deployment
  direct      \* the latest direct call of send_otp_email or generate_otp, and how it ended

vars == <<users, nextId, redis, now, pc, req, loc, result, calls,
          inbox, issued, accepts, otpVerified, fresh, undelivered, verifiedBy, live, redisUp,
          settings, minted, mintedFor, frac, smtp, direct>>

\* ---- values ----
NoUser == [id |-> 0, email |-> None, hashed_password |-> None, auth_provider |-> None,
           provider_id |-> None, is_active |-> FALSE, is_verified |-> FALSE]
NoToken == [sub |-> None, exp |-> 0]
NoProfile == [provider |-> None, provider_id |-> None, email |-> None]
\* a state token as the text nonce SEP ts SEP sig: split(SEP) gives its parts; ts_form tells
\* how the digits of ts are written; sig tells what was signed, with which key
NoSig == [key |-> None, nonce |-> None, ts |-> 0, flip |-> FALSE]
NoState == [parts |-> 0, sep |-> None, nonce |-> None, ts |-> 0, ts_form |-> None, sig |-> NoSig]
NoUrl == [base |-> None, client_id |-> None, redirect_uri |-> None, state |-> NoState]
NoReq == [op |-> None, email |-> None, password |-> None, code |-> None, profile |-> NoProfile,
          provider |-> None, state |-> NoState, redirect_uri |-> None]
NoResult == [status |-> 0, detail |-> None, token |-> NoToken]
NoLoc == [user_id |-> 0, provider_id |-> None, otp_code |-> None, sent |-> None,
          conflict |-> FALSE, late |-> FALSE, freshBy |-> None, is_valid |-> None, outage |-> FALSE,
          seen |-> [code |-> None, at |-> 0, prev |-> None, prevAt |-> 0, rejected |-> FALSE],
          state |-> NoState, url |-> NoUrl, state_error |-> NoResult, http |-> <<>>,
          sub |-> None, github_id |-> 0, user_email |-> None, listing_status |-> 0, listing |-> <<>>]
NoFresh == [code |-> None, at |-> 0, by |-> None]
NoLive == [code |-> None, at |-> 0, prev |-> None, prevAt |-> 0, rejected |-> FALSE]

HTTPException(status, detail) == [status |-> status, detail |-> detail, token |-> NoToken]
Returned(token) == [status |-> 200, detail |-> "ok", token |-> token]

ErrExists == HTTPException(400, "An account with this email already exists.")
ErrIntegrity == HTTPException(500, "IntegrityError")
ErrRedis == HTTPException(500, "redis.exceptions.ConnectionError")
ErrDatabase == HTTPException(500, "sqlalchemy.exc.OperationalError")
ErrSend == HTTPException(500, "Failed to send verification code.")
ErrNotFound == HTTPException(404, "User not found.")
ErrInvalidCode == HTTPException(400, "Invalid or expired verification code.")
ErrCredentials == HTTPException(401, "Incorrect email or password.")
ErrSocial == HTTPException(400, "This account uses social login.")
ErrNotVerified == HTTPException(400, "Email not verified.")
ErrNoEmail == HTTPException(400, "Email address not provided by OAuth provider.")
ErrProviderMismatch == HTTPException(400, "Account exists with a different sign-in method.")
ErrProviderIdMismatch == HTTPException(400, "OAuth provider id mismatch for this account.")
ErrState == HTTPException(400, "Invalid OAuth state.")
ErrStateSignature == HTTPException(400, "Invalid OAuth state signature.")
ErrStateExpired == HTTPException(400, "OAuth state has expired.")
ErrTypeError == HTTPException(500, "TypeError: comparing strings with non-ASCII characters is not supported")
ProviderName(provider) == IF provider = "google" THEN "Google" ELSE "GitHub"
ErrNotConfigured(provider) == HTTPException(400, ProviderName(provider) \o " OAuth is not configured.")
ErrExchange(provider) == HTTPException(400, "Failed to exchange " \o ProviderName(provider) \o " code.")
ErrNoAccessToken(provider) == HTTPException(400, ProviderName(provider) \o " token missing access token.")
ErrProfileFetch(provider) == HTTPException(400, "Failed to fetch " \o ProviderName(provider) \o " profile.")
ErrMissingId(provider) == HTTPException(400, ProviderName(provider) \o " profile missing id.")

\* ---- SMTP settings, and what a direct call leaves behind ----
SmtpConfigured == [SMTP_SERVER |-> "smtp.x.com", SMTP_USERNAME |-> "mailer", SMTP_PASSWORD |-> "smtp-pw",
                   FROM_EMAIL |-> "noreply@x.com"]
\* deployments: each of the four settings set or left out
SmtpDeployments ==
  [SMTP_SERVER : {None, "smtp.x.com"}, SMTP_USERNAME : {None, "mailer"}, SMTP_PASSWORD : {None, "smtp-pw"},
   FROM_EMAIL : {None, "noreply@x.com"}]
NoException == [type |-> None, message |-> None]
NoCall == [fn |-> None, email |-> None, otp_code |-> None, failure |-> None, length |-> 0, n |-> 0,
           returned |-> <<>>, raised |-> NoException]
\* where an SMTP session can fail, and the exception smtplib raises there
SmtpFailures == {"connect", "starttls", "login", "send_message"}
SmtpError(failure) ==
  CASE failure = "connect" -> [type |-> "ConnectionRefusedError", message |-> "[Errno 111] Connection refused"]
    [] failure = "starttls" -> [type |-> "SMTPNotSupportedError", message |-> "STARTTLS extension not supported by server."]
    [] failure = "login" -> [type |-> "SMTPAuthenticationError", message |-> "(535, b'Authentication failed')"]
    [] failure = "send_message" -> [type |-> "SMTPRecipientsRefused", message |-> "{'a@x.com': (550, b'No such user')}"]

\* ---- OAuth client settings ----
Configured == [google |-> [client_id |-> "g-id", client_secret |-> "g-secret", redirect_uri |-> "https://app/google"],
               github |-> [client_id |-> "h-id", client_secret |-> "h-secret", redirect_uri |-> "https://app/github"]]
\* deployments: everything set, or one of the three settings left out for both providers
Deployments ==
  {Configured} \cup
  {[pr \in Providers |-> [Configured[pr] EXCEPT ![k] = None]] : k \in {"client_id", "client_secret", "redirect_uri"}}

\* ---- OAuth state guard ----
\* hmac.new(key, f"{nonce}:{ts}", sha256).hexdigest(): one digest for every key and payload
hmac_sha256(key, nonce, ts) == [key |-> key, nonce |-> nonce, ts |-> ts, flip |-> FALSE]

\* _sign_state that signs the nonce alone
_sign_state_nonce_only(nonce, ts) ==
  [parts |-> 3, sep |-> ":", nonce |-> nonce, ts |-> ts, ts_form |-> "decimal",
   sig |-> hmac_sha256(SECRET_KEY, nonce, 0)]

_sign_state(nonce, ts) ==
  [parts |-> 3, sep |-> ":", nonce |-> nonce, ts |-> ts, ts_form |-> "decimal",
   sig |-> hmac_sha256(SECRET_KEY, nonce, ts)]

\* ts = int(time.time()): the whole seconds of the clock
generate_state(nonce) == _sign_state(nonce, now)

\* state.split(":") gives three parts, and int() takes the second
SplitsInThree(state) == state.sep = ":" /\ state.parts = 3
IsInteger(state) == state.ts_form \in {"decimal", "padded"}
IsAscii(state) == state.nonce \notin NonAsciiNonces

\* returns None (NoResult) or raises; hmac.compare_digest raises TypeError on a str that is
\* not ASCII; time.time() - ts > state_ttl, with the clock at now + frac / 2
validate_state(state) ==
  IF ~SplitsInThree(state) \/ ~IsInteger(state) THEN ErrState
  ELSE IF ~IsAscii(state) THEN ErrTypeError
  ELSE IF _sign_state(state.nonce, state.ts) # state THEN ErrStateSignature
  ELSE IF 2 * (now - state.ts) + frac > 2 * OAUTH_STATE_TTL_SECONDS THEN ErrStateExpired
  ELSE NoResult

\* what a client can make of a token it was given
Tamper(state, how) ==
  CASE how = "none" -> state
    [] how = "flip_sig" -> [state EXCEPT !.sig.flip = TRUE]
    [] how = "other_nonce" -> [state EXCEPT !.nonce = CHOOSE n \in Nonces : n # state.nonce]
    [] how = "later_ts" -> [state EXCEPT !.ts = @ + StateTick]
    [] how = "later_ts_resigned" ->
         [state EXCEPT !.ts = @ + StateTick,
                       !.sig = hmac_sha256("guessed-key", state.nonce, state.ts + StateTick)]
    [] how = "padded_ts" -> [state EXCEPT !.ts_form = "padded"]
    [] how = "junk_ts" -> [state EXCEPT !.ts_form = "junk"]
    [] how = "two_parts" -> [state EXCEPT !.parts = 2]
    [] how = "four_parts" -> [state EXCEPT !.parts = 4]
    [] how = "non_ascii" -> [state EXCEPT !.nonce = CHOOSE n \in NonAsciiNonces : TRUE]
    [] how = "still_quoted" -> [state EXCEPT !.sep = "%3A"]

\* urlencode: ":" becomes "%3A"; the characters of nonce, ts and sig stay
urlencode(state) == [state EXCEPT !.sep = IF @ = ":" THEN "%3A" ELSE @]

\* ---- OAuth exchange: the profile built from the provider's user-info answer ----
\* NoProfile stands for the HTTPException(400, "... profile missing id.") raised instead
_exchange_google(sub, email) ==
  IF sub = None THEN NoProfile
  ELSE [provider |-> "google", provider_id |-> sub, email |-> email]

_exchange_github(id, email) ==
  IF id = 0 THEN NoProfile
  ELSE [provider |-> "github", provider_id |-> ToString(id), email |-> email]

\* the profiles exchange_code_for_profile can return
Profiles ==
  ({_exchange_google(sub, email) : sub \in GoogleSubs, email \in Emails \cup {None}}
     \cup {_exchange_github(id, email) : id \in GithubIds, email \in Emails \cup {None}})
  \ {NoProfile}

\* ---- credential hasher ----
get_password_hash(password) == "bcrypt$" \o password
verify_password(password, hashed) == hashed = get_password_hash(password)

\* ---- token issuer ----
\* create_access_token that falls back to its default of 15 minutes
create_access_token_default(subject, expires_minutes) == [sub |-> subject, exp |-> now + 15 * 60]

create_access_token(subject, expires_minutes) == [sub |-> subject, exp |-> now + expires_minutes * 60]

\* ---- account repository ----
get_user_by_email(email) ==
  IF \E u \in users : u.email = email
  THEN CHOOSE u \in users : u.email = email
  ELSE NoUser

get_user(id) ==
  IF \E u \in users : u.id = id THEN CHOOSE u \in users : u.id = id ELSE NoUser

\* a users table without the unique index
NoUniqueIndex(email) == FALSE

\* the unique index on users.email
UniqueViolation(email) == \E u \in users : u.email = email

InsertUser(row) == users \cup {[row EXCEPT !.id = nextId]}

\* UPDATE users SET ... WHERE id = row.id
UpdateUser(row) == {IF u.id = row.id THEN row ELSE u : u \in users}

\* ---- expiring key/value store ----
\* one key for every email
_otp_key_shared(email) == "otp:"

_otp_key(email) == "otp:" \o email

\* SET without the ex argument: the key never expires
RedisSetForever(key, value, ex) ==
  [k \in DOMAIN redis \cup {key} |-> IF k = key THEN [code |-> value, exp |-> now + 1000 * ex] ELSE redis[k]]

RedisSet(key, value, ex) ==
  [k \in DOMAIN redis \cup {key} |-> IF k = key THEN [code |-> value, exp |-> now + ex] ELSE redis[k]]
RedisGet(key) == IF key \in DOMAIN redis THEN redis[key].code ELSE None
RedisDelete(key) == [k \in DOMAIN redis \ {key} |-> redis[k]]

\* the handler is at the given await, and no finished handler is still holding its response
At(p, label) == pc[p] = label /\ \A q \in Procs : pc[q] # "done"

Done(p, r) ==
  /\ pc' = [pc EXCEPT ![p] = "done"]
  /\ result' = [result EXCEPT ![p] = r]

Goto(p, label) ==
  /\ pc' = [pc EXCEPT ![p] = label]
  /\ UNCHANGED result

\* a request is taken by the first free handler slot, once every finished handler has returned
Begin(p, r) ==
  /\ pc[p] = "idle"
  /\ \A q \in Procs : pc[q] # "done" /\ (q < p => pc[q] # "idle")
  /\ calls' = calls + 1
  /\ req' = [req EXCEPT ![p] = r]

StoreVars == <<users, nextId, redis>>
OAuthVars == <<settings, minted, mintedFor, frac>>
UtilVars == <<smtp, direct>>
HistVars == <<inbox, issued, accepts, otpVerified, fresh, undelivered, verifiedBy, live>>

\* the state after construction, but for the OAuth client settings
InitStore ==
  /\ users = {}
  /\ nextId = 1
  /\ redis = <<>>
  /\ now = 0
  /\ pc = [p \in Procs |-> "idle"]
  /\ req = [p \in Procs |-> NoReq]
  /\ loc = [p \in Procs |-> NoLoc]
  /\ result = [p \in Procs |-> NoResult]
  /\ calls = 0
  /\ inbox = [e \in Emails |-> {}]
  /\ issued = [e \in Emails |-> {}]
  /\ accepts = [e \in Emails |-> <<>>]
  /\ otpVerified = {}
  /\ fresh = [e \in Emails |-> NoFresh]
  /\ undelivered = {}
  /\ verifiedBy = [e \in Emails |-> None]
  /\ live = [e \in Emails |-> NoLive]
  /\ redisUp = TRUE
  /\ minted = {}
  /\ mintedFor = {}
  /\ frac = 0
  /\ direct = NoCall

Init == InitStore /\ settings = Configured /\ smtp = SmtpConfigured

\* ---- OTP service ----
\* the code of the latest issue_otp for the email was neither consumed nor invalidated,
\* and its time-to-live has not elapsed
IsLive(email) == live[email].code # None /\ now - live[email].at < OTP_EXPIRE_SECONDS

\* issue_otp that keeps a code already stored for the email (SET ... NX)
issue_otp_nx(email, code) ==
  /\ redis' = IF _otp_key(email) \in DOMAIN redis THEN redis
              ELSE RedisSet(_otp_key(email), code, OTP_EXPIRE_SECONDS)
  /\ issued' = [issued EXCEPT ![email] = @ \cup {code}]
  /\ accepts' = [accepts EXCEPT ![email] = <<>>]
  /\ fresh' = [fresh EXCEPT ![email] = NoFresh]
  /\ live' = [live EXCEPT ![email] =
                [code |-> code, at |-> now,
                 prev |-> IF IsLive(email) THEN live[email].code ELSE None,
                 prevAt |-> IF IsLive(email) THEN live[email].at ELSE 0,
                 rejected |-> FALSE]]

\* issue_otp: redis.set(key, code, ex=OTP_EXPIRE_SECONDS); code is the outcome of generate_otp()
issue_otp(email, code) ==
  /\ redis' = RedisSet(_otp_key(email), code, OTP_EXPIRE_SECONDS)
  /\ issued' = [issued EXCEPT ![email] = @ \cup {code}]
  /\ accepts' = [accepts EXCEPT ![email] = <<>>]
  /\ fresh' = [fresh EXCEPT ![email] = NoFresh]
  /\ live' = [live EXCEPT ![email] =
                [code |-> code, at |-> now,
                 prev |-> IF IsLive(email) THEN live[email].code ELSE None,
                 prevAt |-> IF IsLive(email) THEN live[email].at ELSE 0,
                 rejected |-> FALSE]]

\* validate_otp that accepts whatever code is submitted
validate_otp_any(email, code) == FALSE

\* validate_otp, up to its first await: stored = redis.get(key); stored is None or stored != code
validate_otp_mismatch(email, code) ==
  LET stored == RedisGet(_otp_key(email)) IN stored = None \/ stored # code

\* validate_otp that deletes the stored code when the submitted one differs
validate_otp_read_burn(p, email, code) ==
  /\ loc' = [loc EXCEPT ![p].late = \E i \in DOMAIN accepts[email] : accepts[email][i] = code,
                        ![p].freshBy = IF fresh[email].code = code THEN fresh[email].by ELSE None,
                        ![p].is_valid = IF validate_otp_mismatch(email, code) THEN "False" ELSE @,
                        ![p].seen = live[email]]
  /\ live' = [live EXCEPT ![email].rejected =
                IF validate_otp_mismatch(email, code) /\ IsLive(email) THEN TRUE ELSE @]
  /\ redis' = IF validate_otp_mismatch(email, code) THEN RedisDelete(_otp_key(email)) ELSE redis

\* validate_otp, its first await and the test on what it read; a False return writes nothing
validate_otp_read(p, email, code) ==
  /\ loc' = [loc EXCEPT ![p].late = \E i \in DOMAIN accepts[email] : accepts[email][i] = code,
                        ![p].freshBy = IF fresh[email].code = code THEN fresh[email].by ELSE None,
                        ![p].is_valid = IF validate_otp_mismatch(email, code) THEN "False" ELSE @,
                        ![p].seen = live[email]]
  /\ live' = [live EXCEPT ![email].rejected =
                IF validate_otp_mismatch(email, code) /\ IsLive(email) THEN TRUE ELSE @]
  /\ redis' = redis

\* validate_otp that returns True and leaves the stored code in place
validate_otp_keep(email, code) ==
  /\ redis' = redis
  /\ accepts' = [accepts EXCEPT ![email] = Append(@, code)]
  /\ otpVerified' = IF code \in issued[email] THEN otpVerified \cup {email} ELSE otpVerified
  /\ fresh' = [fresh EXCEPT ![email] = NoFresh]
  /\ live' = [live EXCEPT ![email] = NoLive]

\* validate_otp, after the first await: redis.delete(key); return True
validate_otp_consume(email, code) ==
  /\ redis' = RedisDelete(_otp_key(email))
  /\ accepts' = [accepts EXCEPT ![email] = Append(@, code)]
  /\ otpVerified' = IF code \in issued[email] THEN otpVerified \cup {email} ELSE otpVerified
  /\ fresh' = [fresh EXCEPT ![email] = NoFresh]
  /\ live' = [live EXCEPT ![email] = NoLive]

\* invalidate that leaves the key in place
invalidate_noop(email) ==
  /\ redis' = redis
  /\ fresh' = [fresh EXCEPT ![email] = NoFresh]
  /\ live' = [live EXCEPT ![email] = NoLive]

\* invalidate: redis.delete(key)
invalidate(email) ==
  /\ redis' = RedisDelete(_otp_key(email))
  /\ fresh' = [fresh EXCEPT ![email] = NoFresh]
  /\ live' = [live EXCEPT ![email] = NoLive]

\* send_otp_email: (True, None) when the SMTP send went through, (False, err) otherwise
send_otp_email(email, otp_code, sent) ==
  inbox' = [inbox EXCEPT ![email] = IF sent THEN @ \cup {otp_code} ELSE @]

\* ---- register ----
NewLocalUser(email, password) ==
  [id |-> 0, email |-> email, hashed_password |-> get_password_hash(password),
   auth_provider |-> "local", provider_id |-> None, is_active |-> FALSE, is_verified |-> FALSE]

\* register without the existence pre-check
RegisterNoCheck(p, email, password) ==
  /\ Begin(p, [NoReq EXCEPT !.op = "register", !.email = email, !.password = password])
  /\ Goto(p, "reg_commit")
  /\ UNCHANGED <<StoreVars, now, redisUp, OAuthVars, UtilVars, loc, HistVars>>

\* existing_user = await _get_user_by_email(email); raise if found
RegisterCheck(p, email, password) ==
  /\ Begin(p, [NoReq EXCEPT !.op = "register", !.email = email, !.password = password])
  /\ IF get_user_by_email(email).id # 0
     THEN Done(p, ErrExists)
     ELSE Goto(p, "reg_commit")
  /\ UNCHANGED <<StoreVars, now, redisUp, OAuthVars, UtilVars, loc, HistVars>>

\* session.add(user); await session.commit(); await session.refresh(user)
\* register that issues the code before the account is persisted
RegisterCommitAfterIssue(p) ==
  /\ At(p, "reg_commit")
  /\ Goto(p, "reg_issue")
  /\ UNCHANGED <<StoreVars, now, redisUp, OAuthVars, UtilVars, req, loc, calls, HistVars>>

RegisterCommit(p) ==
  /\ At(p, "reg_commit")
  /\ IF UniqueViolation(req[p].email)
     THEN /\ Done(p, ErrIntegrity)
          /\ loc' = [loc EXCEPT ![p].conflict = TRUE]
          /\ UNCHANGED <<users, nextId>>
     ELSE /\ users' = InsertUser(NewLocalUser(req[p].email, req[p].password))
          /\ nextId' = nextId + 1
          /\ loc' = [loc EXCEPT ![p].user_id = nextId]
          /\ Goto(p, "reg_issue")
  /\ UNCHANGED <<redis, now, redisUp, OAuthVars, UtilVars, req, calls, HistVars>>

\* otp_code = await otp_service.issue_otp(user.email)
RegisterIssue(p) ==
  /\ At(p, "reg_issue")
  /\ IF redisUp
     THEN /\ \E code \in Codes :
               /\ issue_otp(req[p].email, code)
               /\ loc' = [loc EXCEPT ![p].otp_code = code]
          /\ Goto(p, "reg_send")
     ELSE /\ loc' = [loc EXCEPT ![p].outage = TRUE]
          /\ Done(p, ErrRedis)
          /\ UNCHANGED <<redis, issued, accepts, fresh, live>>
  /\ UNCHANGED <<users, nextId, now, redisUp, OAuthVars, UtilVars, req, calls, inbox, otpVerified, undelivered, verifiedBy>>

\* sent, err = await send_otp_email(user.email, otp_code); return user when sent
RegisterSend(p) ==
  /\ At(p, "reg_send")
  /\ \E sent \in BOOLEAN :
       /\ send_otp_email(req[p].email, loc[p].otp_code, sent)
       /\ fresh' = [fresh EXCEPT ![req[p].email] =
                      IF sent THEN [code |-> loc[p].otp_code, at |-> now, by |-> "register"] ELSE @]
       /\ loc' = [loc EXCEPT ![p].sent = IF sent THEN "True" ELSE "False"]
       /\ IF sent THEN Done(p, Returned(NoToken)) ELSE Goto(p, "reg_invalidate")
  /\ UNCHANGED <<StoreVars, now, redisUp, OAuthVars, UtilVars, req, calls, issued, accepts, otpVerified, undelivered, verifiedBy, live>>

\* await otp_service.invalidate(user.email); raise HTTPException(500)
RegisterInvalidate(p) ==
  /\ At(p, "reg_invalidate")
  /\ IF redisUp
     THEN /\ invalidate(req[p].email)
          /\ undelivered' = undelivered \cup {req[p].email}
          /\ Done(p, ErrSend)
          /\ UNCHANGED loc
     ELSE /\ loc' = [loc EXCEPT ![p].outage = TRUE]
          /\ Done(p, ErrRedis)
          /\ UNCHANGED <<redis, fresh, live, undelivered>>
  /\ UNCHANGED <<users, nextId, now, redisUp, OAuthVars, UtilVars, req, calls, inbox, issued, accepts, otpVerified, verifiedBy>>

\* ---- verify_otp ----
\* verify_otp that goes on to validate the code when no account matches
VerifyLookupNoCheck(p, email, code) ==
  /\ Begin(p, [NoReq EXCEPT !.op = "verify_otp", !.email = email, !.code = code])
  /\ Goto(p, "ver_get")
  /\ loc' = [loc EXCEPT ![p].user_id = get_user_by_email(email).id]
  /\ UNCHANGED <<StoreVars, now, redisUp, OAuthVars, UtilVars, HistVars>>

\* user = await _get_user_by_email(email); raise 404 if missing
VerifyLookup(p, email, code) ==
  /\ Begin(p, [NoReq EXCEPT !.op = "verify_otp", !.email = email, !.code = code])
  /\ LET user == get_user_by_email(email) IN
       IF user.id = 0
       THEN Done(p, ErrNotFound) /\ UNCHANGED loc
       ELSE Goto(p, "ver_get") /\ loc' = [loc EXCEPT ![p].user_id = user.id]
  /\ UNCHANGED <<StoreVars, now, redisUp, OAuthVars, UtilVars, HistVars>>

\* validate_otp that takes an unreachable store for "no code stored"
VerifyGetSwallow(p) ==
  /\ At(p, "ver_get")
  /\ IF redisUp
     THEN /\ validate_otp_read(p, req[p].email, req[p].code)
          /\ IF validate_otp_mismatch(req[p].email, req[p].code)
             THEN Done(p, ErrInvalidCode)
             ELSE Goto(p, "ver_delete")
     ELSE /\ loc' = [loc EXCEPT ![p].outage = TRUE, ![p].is_valid = "False"]
          /\ Done(p, ErrInvalidCode)
          /\ UNCHANGED <<redis, live>>
  /\ UNCHANGED <<users, nextId, now, redisUp, OAuthVars, UtilVars, req, calls,
                 inbox, issued, accepts, otpVerified, fresh, undelivered, verifiedBy>>

\* validate_otp: stored = await redis.get(key); return False on absent or different code
VerifyGet(p) ==
  /\ At(p, "ver_get")
  /\ IF redisUp
     THEN /\ validate_otp_read(p, req[p].email, req[p].code)
          /\ IF validate_otp_mismatch(req[p].email, req[p].code)
             THEN Done(p, ErrInvalidCode)
             ELSE Goto(p, "ver_delete")
     ELSE /\ loc' = [loc EXCEPT ![p].outage = TRUE]
          /\ Done(p, ErrRedis)
          /\ UNCHANGED <<redis, live>>
  /\ UNCHANGED <<users, nextId, now, redisUp, OAuthVars, UtilVars, req, calls,
                 inbox, issued, accepts, otpVerified, fresh, undelivered, verifiedBy>>

\* validate_otp: await redis.delete(key); return True
VerifyDelete(p) ==
  /\ At(p, "ver_delete")
  /\ IF redisUp
     THEN /\ validate_otp_consume(req[p].email, req[p].code)
          /\ loc' = [loc EXCEPT ![p].is_valid = "True"]
          /\ Goto(p, "ver_commit")
     ELSE /\ loc' = [loc EXCEPT ![p].outage = TRUE]
          /\ Done(p, ErrRedis)
          /\ UNCHANGED <<redis, accepts, otpVerified, fresh, live>>
  /\ UNCHANGED <<users, nextId, now, redisUp, OAuthVars, UtilVars, req, calls, inbox, issued, undelivered, verifiedBy>>

\* verify_otp that marks the account verified but forgets is_active
VerifyCommitNotActive(p) ==
  /\ At(p, "ver_commit")
  /\ users' = UpdateUser([get_user(loc[p].user_id) EXCEPT !.is_verified = TRUE])
  /\ verifiedBy' = [verifiedBy EXCEPT ![req[p].email] = IF loc[p].freshBy # None THEN loc[p].freshBy ELSE @]
  /\ Done(p, Returned(NoToken))
  /\ UNCHANGED <<nextId, redis, now, redisUp, OAuthVars, UtilVars, req, loc, calls, inbox, issued, accepts, otpVerified, fresh, undelivered, live>>

\* user.is_verified = True; user.is_active = True; await session.commit()
VerifyCommit(p) ==
  /\ At(p, "ver_commit")
  /\ users' = UpdateUser([get_user(loc[p].user_id) EXCEPT !.is_verified = TRUE, !.is_active = TRUE])
  /\ verifiedBy' = [verifiedBy EXCEPT ![req[p].email] = IF loc[p].freshBy # None THEN loc[p].freshBy ELSE @]
  /\ Done(p, Returned(NoToken))
  /\ UNCHANGED <<nextId, redis, now, redisUp, OAuthVars, UtilVars, req, loc, calls, inbox, issued, accepts, otpVerified, fresh, undelivered, live>>

\* ---- resend_otp ----
\* resend_otp that issues a code whether or not an account matches
ResendLookupNoCheck(p, email) ==
  /\ Begin(p, [NoReq EXCEPT !.op = "resend_otp", !.email = email])
  /\ Goto(p, "res_issue")
  /\ UNCHANGED <<StoreVars, now, redisUp, OAuthVars, UtilVars, loc, HistVars>>

\* user = await _get_user_by_email(email); raise 404 if missing
ResendLookup(p, email) ==
  /\ Begin(p, [NoReq EXCEPT !.op = "resend_otp", !.email = email])
  /\ IF get_user_by_email(email).id = 0
     THEN Done(p, ErrNotFound)
     ELSE Goto(p, "res_issue")
  /\ UNCHANGED <<StoreVars, now, redisUp, OAuthVars, UtilVars, loc, HistVars>>

\* otp_code = await otp_service.issue_otp(email)
\* resend_otp that puts the account back to unverified when it issues a new code
ResendIssueUnverifies(p) ==
  /\ At(p, "res_issue")
  /\ IF redisUp
     THEN /\ \E code \in Codes :
               /\ issue_otp(req[p].email, code)
               /\ loc' = [loc EXCEPT ![p].otp_code = code]
          /\ users' = UpdateUser([get_user_by_email(req[p].email) EXCEPT !.is_verified = FALSE, !.is_active = FALSE])
          /\ Goto(p, "res_send")
     ELSE /\ loc' = [loc EXCEPT ![p].outage = TRUE]
          /\ Done(p, ErrRedis)
          /\ UNCHANGED <<users, redis, issued, accepts, fresh, live>>
  /\ UNCHANGED <<nextId, now, redisUp, OAuthVars, UtilVars, req, calls, inbox, otpVerified, undelivered, verifiedBy>>

ResendIssue(p) ==
  /\ At(p, "res_issue")
  /\ IF redisUp
     THEN /\ \E code \in Codes :
               /\ issue_otp(req[p].email, code)
               /\ loc' = [loc EXCEPT ![p].otp_code = code]
          /\ Goto(p, "res_send")
     ELSE /\ loc' = [loc EXCEPT ![p].outage = TRUE]
          /\ Done(p, ErrRedis)
          /\ UNCHANGED <<redis, issued, accepts, fresh, live>>
  /\ UNCHANGED <<users, nextId, now, redisUp, OAuthVars, UtilVars, req, calls, inbox, otpVerified, undelivered, verifiedBy>>

\* sent, err = await send_otp_email(email, otp_code)
ResendSend(p) ==
  /\ At(p, "res_send")
  /\ \E sent \in BOOLEAN :
       /\ send_otp_email(req[p].email, loc[p].otp_code, sent)
       /\ fresh' = [fresh EXCEPT ![req[p].email] =
                      IF sent THEN [code |-> loc[p].otp_code, at |-> now, by |-> "resend_otp"] ELSE @]
       /\ loc' = [loc EXCEPT ![p].sent = IF sent THEN "True" ELSE "False"]
       /\ IF sent THEN Done(p, Returned(NoToken)) ELSE Goto(p, "res_invalidate")
  /\ UNCHANGED <<StoreVars, now, redisUp, OAuthVars, UtilVars, req, calls, issued, accepts, otpVerified, undelivered, verifiedBy, live>>

\* await otp_service.invalidate(email); raise HTTPException(500)
ResendInvalidate(p) ==
  /\ At(p, "res_invalidate")
  /\ IF redisUp
     THEN /\ invalidate(req[p].email)
          /\ Done(p, ErrSend)
          /\ UNCHANGED loc
     ELSE /\ loc' = [loc EXCEPT ![p].outage = TRUE]
          /\ Done(p, ErrRedis)
          /\ UNCHANGED <<redis, fresh, live>>
  /\ UNCHANGED <<users, nextId, now, redisUp, OAuthVars, UtilVars, req, calls, inbox, issued, accepts, otpVerified, undelivered, verifiedBy>>

\* login that skips the is_verified check
LoginOutcomeNoVerifiedCheck(email, password) ==
  LET user == get_user_by_email(email) IN
    IF user.id = 0 THEN ErrCredentials
    ELSE IF user.auth_provider # "local" THEN ErrSocial
    ELSE IF user.hashed_password = None \/ ~verify_password(password, user.hashed_password)
         THEN ErrCredentials
    ELSE Returned(create_access_token(user.email, ACCESS_TOKEN_EXPIRE_MINUTES))

\* ---- login ----
LoginOutcome(email, password) ==
  LET user == get_user_by_email(email) IN
    IF user.id = 0 THEN ErrCredentials
    ELSE IF user.auth_provider # "local" THEN ErrSocial
    ELSE IF user.hashed_password = None \/ ~verify_password(password, user.hashed_password)
         THEN ErrCredentials
    ELSE IF ~user.is_verified THEN ErrNotVerified
    ELSE Returned(create_access_token(user.email, ACCESS_TOKEN_EXPIRE_MINUTES))

Login(p, email, password) ==
  /\ Begin(p, [NoReq EXCEPT !.op = "login", !.email = email, !.password = password])
  /\ Done(p, LoginOutcome(email, password))
  /\ UNCHANGED <<StoreVars, now, redisUp, OAuthVars, UtilVars, loc, HistVars>>

\* login_with_oauth that creates the account verified but not active
NewOAuthUserInactive(profile) ==
  [id |-> 0, email |-> profile.email, hashed_password |-> None,
   auth_provider |-> profile.provider, provider_id |-> profile.provider_id,
   is_active |-> FALSE, is_verified |-> TRUE]

\* login_with_oauth that does not store the provider's subject id
NewOAuthUserNoProviderId(profile) ==
  [id |-> 0, email |-> profile.email, hashed_password |-> None,
   auth_provider |-> profile.provider, provider_id |-> None,
   is_active |-> TRUE, is_verified |-> TRUE]

\* ---- login_with_oauth ----
NewOAuthUser(profile) ==
  [id |-> 0, email |-> profile.email, hashed_password |-> None,
   auth_provider |-> profile.provider, provider_id |-> profile.provider_id,
   is_active |-> TRUE, is_verified |-> TRUE]

\* login_with_oauth that signs in to whatever account has the email
OAuthLookupMerge(p, profile) ==
  /\ Begin(p, [NoReq EXCEPT !.op = "login_with_oauth", !.email = profile.email, !.profile = profile])
  /\ IF profile.email = None
     THEN Done(p, ErrNoEmail) /\ UNCHANGED loc
     ELSE LET user == get_user_by_email(profile.email) IN
       IF user.id # 0
       THEN IF FALSE
            THEN Done(p, ErrProviderMismatch) /\ UNCHANGED loc
            ELSE IF user.provider_id # None /\ user.provider_id # profile.provider_id
            THEN Done(p, ErrProviderIdMismatch) /\ UNCHANGED loc
            ELSE /\ loc' = [loc EXCEPT ![p].user_id = user.id,
                                       ![p].provider_id = IF user.provider_id # None
                                                          THEN user.provider_id
                                                          ELSE profile.provider_id]
                 /\ Goto(p, "oauth_update")
       ELSE Goto(p, "oauth_create") /\ UNCHANGED loc
  /\ UNCHANGED <<StoreVars, now, redisUp, OAuthVars, UtilVars, HistVars>>

\* login_with_oauth that takes the profile's id over the stored one
OAuthLookupOverwriteId(p, profile) ==
  /\ Begin(p, [NoReq EXCEPT !.op = "login_with_oauth", !.email = profile.email, !.profile = profile])
  /\ IF profile.email = None
     THEN Done(p, ErrNoEmail) /\ UNCHANGED loc
     ELSE LET user == get_user_by_email(profile.email) IN
       IF user.id # 0
       THEN IF user.auth_provider # profile.provider
            THEN Done(p, ErrProviderMismatch) /\ UNCHANGED loc
            ELSE IF FALSE
            THEN Done(p, ErrProviderIdMismatch) /\ UNCHANGED loc
            ELSE /\ loc' = [loc EXCEPT ![p].user_id = user.id,
                                       ![p].provider_id = profile.provider_id]
                 /\ Goto(p, "oauth_update")
       ELSE Goto(p, "oauth_create") /\ UNCHANGED loc
  /\ UNCHANGED <<StoreVars, now, redisUp, OAuthVars, UtilVars, HistVars>>

\* login_with_oauth without the check for a missing email
OAuthLookupNoEmailCheck(p, profile) ==
  /\ Begin(p, [NoReq EXCEPT !.op = "login_with_oauth", !.email = profile.email, !.profile = profile])
  /\ IF FALSE
     THEN Done(p, ErrNoEmail) /\ UNCHANGED loc
     ELSE LET user == get_user_by_email(profile.email) IN
       IF user.id # 0
       THEN IF user.auth_provider # profile.provider
            THEN Done(p, ErrProviderMismatch) /\ UNCHANGED loc
            ELSE IF user.provider_id # None /\ user.provider_id # profile.provider_id
            THEN Done(p, ErrProviderIdMismatch) /\ UNCHANGED loc
            ELSE /\ loc' = [loc EXCEPT ![p].user_id = user.id,
                                       ![p].provider_id = IF user.provider_id # None
                                                          THEN user.provider_id
                                                          ELSE profile.provider_id]
                 /\ Goto(p, "oauth_update")
       ELSE Goto(p, "oauth_create") /\ UNCHANGED loc
  /\ UNCHANGED <<StoreVars, now, redisUp, OAuthVars, UtilVars, HistVars>>

\* email check, user = await _get_user_by_email(profile.email), provider checks
OAuthLookup(p, profile) ==
  /\ Begin(p, [NoReq EXCEPT !.op = "login_with_oauth", !.email = profile.email, !.profile = profile])
  /\ IF profile.email = None
     THEN Done(p, ErrNoEmail) /\ UNCHANGED loc
     ELSE LET user == get_user_by_email(profile.email) IN
       IF user.id # 0
       THEN IF user.auth_provider # profile.provider
            THEN Done(p, ErrProviderMismatch) /\ UNCHANGED loc
            ELSE IF user.provider_id # None /\ user.provider_id # profile.provider_id
            THEN Done(p, ErrProviderIdMismatch) /\ UNCHANGED loc
            ELSE /\ loc' = [loc EXCEPT ![p].user_id = user.id,
                                       ![p].provider_id = IF user.provider_id # None
                                                          THEN user.provider_id
                                                          ELSE profile.provider_id]
                 /\ Goto(p, "oauth_update")
       ELSE Goto(p, "oauth_create") /\ UNCHANGED loc
  /\ UNCHANGED <<StoreVars, now, redisUp, OAuthVars, UtilVars, HistVars>>

\* existing account: set provider_id / is_verified / is_active, commit, mint the token
OAuthUpdate(p) ==
  /\ At(p, "oauth_update")
  /\ LET user == [get_user(loc[p].user_id) EXCEPT !.provider_id = loc[p].provider_id,
                                                  !.is_verified = TRUE, !.is_active = TRUE] IN
       /\ users' = UpdateUser(user)
       /\ Done(p, Returned(create_access_token(user.email, ACCESS_TOKEN_EXPIRE_MINUTES)))
  /\ UNCHANGED <<nextId, redis, now, redisUp, OAuthVars, UtilVars, req, loc, calls, HistVars>>

\* login_with_oauth that mints the token for the provider's subject id
OAuthCreateSubjectId(p) ==
  /\ At(p, "oauth_create")
  /\ IF UniqueViolation(req[p].profile.email)
     THEN /\ Done(p, ErrIntegrity)
          /\ loc' = [loc EXCEPT ![p].conflict = TRUE]
          /\ UNCHANGED <<users, nextId>>
     ELSE /\ users' = InsertUser(NewOAuthUser(req[p].profile))
          /\ nextId' = nextId + 1
          /\ Done(p, Returned(create_access_token(req[p].profile.provider_id, ACCESS_TOKEN_EXPIRE_MINUTES)))
          /\ UNCHANGED loc
  /\ UNCHANGED <<redis, now, redisUp, OAuthVars, UtilVars, req, calls, HistVars>>

\* no account: session.add(User(...)), commit, mint the token
OAuthCreate(p) ==
  /\ At(p, "oauth_create")
  /\ IF UniqueViolation(req[p].profile.email)
     THEN /\ Done(p, ErrIntegrity)
          /\ loc' = [loc EXCEPT ![p].conflict = TRUE]
          /\ UNCHANGED <<users, nextId>>
     ELSE /\ users' = InsertUser(NewOAuthUser(req[p].profile))
          /\ nextId' = nextId + 1
          /\ Done(p, Returned(create_access_token(req[p].profile.email, ACCESS_TOKEN_EXPIRE_MINUTES)))
          /\ UNCHANGED loc
  /\ UNCHANGED <<redis, now, redisUp, OAuthVars, UtilVars, req, calls, HistVars>>

\* ---- OAuth start and callback ----
Missing(provider, redirect_uri) ==
  LET redirect == IF redirect_uri # None THEN redirect_uri ELSE settings[provider].redirect_uri IN
    settings[provider].client_id = None \/ settings[provider].client_secret = None \/ redirect = None

AuthorizeEndpoint(provider) ==
  IF provider = "google" THEN "https://accounts.google.com/o/oauth2/v2/auth"
  ELSE "https://github.com/login/oauth/authorize"

\* the state query parameter of the URL, decoded as the provider's server decodes it
parse_qs_state(url) == [url.state EXCEPT !.sep = IF @ = "%3A" THEN ":" ELSE @]

\* get_authorization_url that puts a state of its own into the URL
OAuthStartOwnUrlState(p, provider, redirect_uri, nonce) ==
  /\ Begin(p, [NoReq EXCEPT !.op = "oauth_start", !.provider = provider, !.redirect_uri = redirect_uri])
  /\ LET state == generate_state(nonce)
         other == generate_state(CHOOSE n \in Nonces : n # nonce) IN
       /\ minted' = minted \cup {state, other}
       /\ IF Missing(provider, redirect_uri)
          THEN Done(p, ErrNotConfigured(provider)) /\ UNCHANGED loc
          ELSE /\ loc' = [loc EXCEPT ![p].state = state,
                                     ![p].url = [base |-> AuthorizeEndpoint(provider),
                                                 client_id |-> settings[provider].client_id,
                                                 redirect_uri |-> IF redirect_uri # None THEN redirect_uri
                                                                  ELSE settings[provider].redirect_uri,
                                                 state |-> urlencode(other)]]
               /\ Done(p, Returned(NoToken))
  /\ UNCHANGED <<StoreVars, now, redisUp, settings, mintedFor, UtilVars, frac, HistVars>>

\* oauth_start: get_authorization_url mints the state, then looks at the settings, then
\* builds the URL; the route answers with the URL and the state
OAuthStart(p, provider, redirect_uri, nonce) ==
  /\ Begin(p, [NoReq EXCEPT !.op = "oauth_start", !.provider = provider, !.redirect_uri = redirect_uri])
  /\ LET state == generate_state(nonce) IN
       /\ minted' = minted \cup {state}
       /\ IF Missing(provider, redirect_uri)
          THEN Done(p, ErrNotConfigured(provider)) /\ UNCHANGED loc
          ELSE /\ loc' = [loc EXCEPT ![p].state = state,
                                     ![p].url = [base |-> AuthorizeEndpoint(provider),
                                                 client_id |-> settings[provider].client_id,
                                                 redirect_uri |-> IF redirect_uri # None THEN redirect_uri
                                                                  ELSE settings[provider].redirect_uri,
                                                 state |-> urlencode(state)]]
               /\ Done(p, Returned(NoToken))
  /\ UNCHANGED <<StoreVars, now, redisUp, settings, mintedFor, UtilVars, frac, HistVars>>

\* the states a client can present: what it makes of a state the service handed out
PresentedStates == {Tamper(state, how) : state \in minted, how \in Tamperings}

\* exchange_code_for_profile that looks at the provider settings before the state
CallbackBeginSettingsFirst(p, provider, state, redirect_uri) ==
  /\ Begin(p, [NoReq EXCEPT !.op = "oauth_callback", !.provider = provider, !.state = state,
                            !.redirect_uri = redirect_uri])
  /\ LET err == validate_state(state) IN
       /\ loc' = [loc EXCEPT ![p].state_error = err]
       /\ IF Missing(provider, redirect_uri) THEN Done(p, ErrNotConfigured(provider))
          ELSE IF err # NoResult THEN Done(p, err)
          ELSE Goto(p, "cb_token")
  /\ UNCHANGED <<StoreVars, now, redisUp, OAuthVars, UtilVars, HistVars>>

\* exchange_code_for_profile that takes a state once only
CallbackBeginSingleUse(p, provider, state, redirect_uri) ==
  /\ Begin(p, [NoReq EXCEPT !.op = "oauth_callback", !.provider = provider, !.state = state,
                            !.redirect_uri = redirect_uri])
  /\ LET err == IF validate_state(state) = NoResult /\ state \notin minted
                THEN ErrStateSignature ELSE validate_state(state) IN
       /\ loc' = [loc EXCEPT ![p].state_error = err]
       /\ minted' = minted \ {state}
       /\ IF err # NoResult THEN Done(p, err)
          ELSE IF Missing(provider, redirect_uri) THEN Done(p, ErrNotConfigured(provider))
          ELSE Goto(p, "cb_token")
  /\ UNCHANGED <<StoreVars, now, redisUp, settings, mintedFor, frac, UtilVars, HistVars>>

\* exchange_code_for_profile that takes a state only for the provider and the redirect
\* override it was handed out for
CallbackBeginBound(p, provider, state, redirect_uri) ==
  /\ Begin(p, [NoReq EXCEPT !.op = "oauth_callback", !.provider = provider, !.state = state,
                            !.redirect_uri = redirect_uri])
  /\ LET bound == [state |-> state, provider |-> provider, redirect_uri |-> redirect_uri] \in mintedFor
         err == IF validate_state(state) = NoResult /\ ~bound
                THEN ErrStateSignature ELSE validate_state(state) IN
       /\ loc' = [loc EXCEPT ![p].state_error = err]
       /\ IF err # NoResult THEN Done(p, err)
          ELSE IF Missing(provider, redirect_uri) THEN Done(p, ErrNotConfigured(provider))
          ELSE Goto(p, "cb_token")
  /\ UNCHANGED <<StoreVars, now, redisUp, OAuthVars, UtilVars, HistVars>>

\* oauth_callback up to the first await: validate_state, then the provider's settings
CallbackBegin(p, provider, state, redirect_uri) ==
  /\ Begin(p, [NoReq EXCEPT !.op = "oauth_callback", !.provider = provider, !.state = state,
                            !.redirect_uri = redirect_uri])
  /\ LET err == validate_state(state) IN
       /\ loc' = [loc EXCEPT ![p].state_error = err]
       /\ IF err # NoResult THEN Done(p, err)
          ELSE IF Missing(provider, redirect_uri) THEN Done(p, ErrNotConfigured(provider))
          ELSE Goto(p, "cb_token")
  /\ UNCHANGED <<StoreVars, now, redisUp, OAuthVars, UtilVars, HistVars>>

\* the token endpoint that takes any answer for a token
CallbackTokenAnyStatus(p, status_code, access_token) ==
  /\ At(p, "cb_token")
  /\ loc' = [loc EXCEPT ![p].http = Append(@, [call |-> "token", status_code |-> status_code])]
  /\ IF ~access_token THEN Done(p, ErrNoAccessToken(req[p].provider))
     ELSE Goto(p, "cb_profile")
  /\ UNCHANGED <<StoreVars, now, redisUp, OAuthVars, UtilVars, req, calls, HistVars>>

\* the token endpoint has answered
CallbackToken(p, status_code, access_token) ==
  /\ At(p, "cb_token")
  /\ loc' = [loc EXCEPT ![p].http = Append(@, [call |-> "token", status_code |-> status_code])]
  /\ IF status_code # 200 THEN Done(p, ErrExchange(req[p].provider))
     ELSE IF ~access_token THEN Done(p, ErrNoAccessToken(req[p].provider))
     ELSE Goto(p, "cb_profile")
  /\ UNCHANGED <<StoreVars, now, redisUp, OAuthVars, UtilVars, req, calls, HistVars>>

\* the profile endpoint has answered: Google's "sub" and "email", GitHub's "id" and "email"
CallbackProfile(p, status_code, sub, id, email) ==
  /\ At(p, "cb_profile")
  /\ LET provider == req[p].provider
         log == Append(loc[p].http, [call |-> "profile", status_code |-> status_code]) IN
       IF status_code # 200
       THEN /\ Done(p, ErrProfileFetch(provider))
            /\ loc' = [loc EXCEPT ![p].http = log]
            /\ UNCHANGED req
       ELSE IF provider = "google"
       THEN /\ loc' = [loc EXCEPT ![p].http = log, ![p].user_email = email, ![p].sub = sub]
            /\ IF _exchange_google(sub, email) = NoProfile
               THEN Done(p, ErrMissingId(provider)) /\ UNCHANGED req
               ELSE /\ req' = [req EXCEPT ![p].profile = _exchange_google(sub, email), ![p].email = email]
                    /\ Goto(p, "cb_login")
       ELSE /\ loc' = [loc EXCEPT ![p].http = log, ![p].user_email = email, ![p].github_id = id]
            /\ IF email = None
               THEN Goto(p, "cb_emails") /\ UNCHANGED req
               ELSE IF _exchange_github(id, email) = NoProfile
               THEN Done(p, ErrMissingId(provider)) /\ UNCHANGED req
               ELSE /\ req' = [req EXCEPT ![p].profile = _exchange_github(id, email), ![p].email = email]
                    /\ Goto(p, "cb_login")
  /\ UNCHANGED <<StoreVars, now, redisUp, OAuthVars, UtilVars, calls, HistVars>>

\* the listing loop that takes the last primary entry, verified or not
LastPrimary(entries) ==
  IF \E i \in 1..Len(entries) : entries[i].primary
  THEN entries[CHOOSE i \in 1..Len(entries) :
                 entries[i].primary /\ \A j \in (i + 1)..Len(entries) : ~entries[j].primary].email
  ELSE None

\* for entry in emails_resp.json(): the first primary, verified entry with an email
RECURSIVE PrimaryVerifiedEmail(_)
PrimaryVerifiedEmail(entries) ==
  IF entries = <<>> THEN None
  ELSE IF Head(entries).primary /\ Head(entries).verified /\ Head(entries).email # None
  THEN Head(entries).email
  ELSE PrimaryVerifiedEmail(Tail(entries))

\* GitHub's email listing has answered; then the id check, then the profile
CallbackEmails(p, status_code, entries) ==
  /\ At(p, "cb_emails")
  /\ LET email == IF status_code = 200 THEN PrimaryVerifiedEmail(entries) ELSE None
         profile == _exchange_github(loc[p].github_id, email) IN
       /\ loc' = [loc EXCEPT ![p].http = Append(@, [call |-> "emails", status_code |-> status_code]),
                             ![p].listing_status = status_code, ![p].listing = entries]
       /\ IF profile = NoProfile
          THEN Done(p, ErrMissingId(req[p].provider)) /\ UNCHANGED req
          ELSE /\ req' = [req EXCEPT ![p].profile = profile, ![p].email = email]
               /\ Goto(p, "cb_login")
  /\ UNCHANGED <<StoreVars, now, redisUp, OAuthVars, UtilVars, calls, HistVars>>

\* the callback's login_with_oauth(profile), up to the answer of get_by_email
CallbackLogin(p) ==
  /\ At(p, "cb_login")
  /\ LET profile == req[p].profile IN
     IF profile.email = None
     THEN Done(p, ErrNoEmail) /\ UNCHANGED loc
     ELSE LET user == get_user_by_email(profile.email) IN
       IF user.id # 0
       THEN IF user.auth_provider # profile.provider
            THEN Done(p, ErrProviderMismatch) /\ UNCHANGED loc
            ELSE IF user.provider_id # None /\ user.provider_id # profile.provider_id
            THEN Done(p, ErrProviderIdMismatch) /\ UNCHANGED loc
            ELSE /\ loc' = [loc EXCEPT ![p].user_id = user.id,
                                       ![p].provider_id = IF user.provider_id # None
                                                          THEN user.provider_id
                                                          ELSE profile.provider_id]
                 /\ Goto(p, "oauth_update")
       ELSE Goto(p, "oauth_create") /\ UNCHANGED loc
  /\ UNCHANGED <<StoreVars, now, redisUp, OAuthVars, UtilVars, req, calls, HistVars>>

\* ---- environment ----
\* the response has been sent; the handler's frame is gone
Return(p) ==
  /\ pc[p] = "done"
  /\ pc' = [pc EXCEPT ![p] = "idle"]
  /\ req' = [req EXCEPT ![p] = NoReq]
  /\ loc' = [loc EXCEPT ![p] = NoLoc]
  /\ result' = [result EXCEPT ![p] = NoResult]
  /\ UNCHANGED <<StoreVars, now, redisUp, OAuthVars, UtilVars, calls, HistVars>>

\* time passes between requests (a handler's awaits are short next to TickStep);
\* Redis drops the keys whose time-to-live has elapsed
ElapseBy(step, limit) ==
  /\ \A q \in Procs : pc[q] = "idle"
  /\ now + step <= limit
  /\ now' = now + step
  /\ redis' = [k \in {k \in DOMAIN redis : redis[k].exp > now'} |-> redis[k]]
  /\ fresh' = [e \in Emails |-> IF fresh[e].code # None /\ now' - fresh[e].at >= OTP_EXPIRE_SECONDS
                                THEN NoFresh ELSE fresh[e]]
  /\ UNCHANGED <<users, nextId, pc, req, loc, result, calls, redisUp, OAuthVars, UtilVars,
                 inbox, issued, accepts, otpVerified, undelivered, verifiedBy, live>>

Elapse(limit) == ElapseBy(TickStep, limit)

Tick == Elapse(MaxTime)

RaceProfiles == {pr \in Profiles : pr.email \in RaceEmails /\ pr.provider_id \in RaceProviderIds}

Next ==
  \/ \E p \in Procs, email \in RaceEmails, password \in RacePasswords : calls < MaxRaceCalls /\ RegisterCheck(p, email, password)
  \/ \E p \in Procs : RegisterCommit(p)
  \/ \E p \in Procs : RegisterIssue(p)
  \/ \E p \in Procs : RegisterSend(p)
  \/ \E p \in Procs : RegisterInvalidate(p)
  \/ \E p \in Procs, email \in RaceEmails, code \in Codes : calls < MaxRaceCalls /\ VerifyLookup(p, email, code)
  \/ \E p \in Procs : VerifyGet(p)
  \/ \E p \in Procs : VerifyDelete(p)
  \/ \E p \in Procs : VerifyCommit(p)
  \/ \E p \in Procs, email \in RaceEmails : calls < MaxRaceCalls /\ ResendLookup(p, email)
  \/ \E p \in Procs : ResendIssue(p)
  \/ \E p \in Procs : ResendSend(p)
  \/ \E p \in Procs : ResendInvalidate(p)
  \/ \E p \in Procs, email \in RaceEmails, password \in RacePasswords : calls < MaxRaceCalls /\ Login(p, email, password)
  \/ \E p \in Procs, profile \in RaceProfiles : calls < MaxRaceCalls /\ OAuthLookup(p, profile)
  \/ \E p \in Procs : OAuthUpdate(p)
  \/ \E p \in Procs : OAuthCreate(p)
  \/ \E p \in Procs : Return(p)
  \/ Tick

Spec == Init /\ [][Next]_vars

\* ---- one request at a time: a handler runs to completion before the next request starts ----
Quiet(p) == \A q \in Procs \ {p} : pc[q] = "idle"

SeqNext ==
  \/ \E p \in Procs, email \in Emails, password \in Passwords : Quiet(p) /\ calls < MaxCalls /\ RegisterCheck(p, email, password)
  \/ \E p \in Procs : Quiet(p) /\ RegisterCommit(p)
  \/ \E p \in Procs : Quiet(p) /\ RegisterIssue(p)
  \/ \E p \in Procs : Quiet(p) /\ RegisterSend(p)
  \/ \E p \in Procs : Quiet(p) /\ RegisterInvalidate(p)
  \/ \E p \in Procs, email \in Emails, code \in Codes : Quiet(p) /\ calls < MaxCalls /\ VerifyLookup(p, email, code)
  \/ \E p \in Procs : Quiet(p) /\ VerifyGet(p)
  \/ \E p \in Procs : Quiet(p) /\ VerifyDelete(p)
  \/ \E p \in Procs : Quiet(p) /\ VerifyCommit(p)
  \/ \E p \in Procs, email \in Emails : Quiet(p) /\ calls < MaxCalls /\ ResendLookup(p, email)
  \/ \E p \in Procs : Quiet(p) /\ ResendIssue(p)
  \/ \E p \in Procs : Quiet(p) /\ ResendSend(p)
  \/ \E p \in Procs : Quiet(p) /\ ResendInvalidate(p)
  \/ \E p \in Procs, email \in Emails, password \in Passwords : Quiet(p) /\ calls < MaxCalls /\ Login(p, email, password)
  \/ \E p \in Procs, profile \in Profiles : Quiet(p) /\ calls < MaxCalls /\ OAuthLookup(p, profile)
  \/ \E p \in Procs : Quiet(p) /\ OAuthUpdate(p)
  \/ \E p \in Procs : Quiet(p) /\ OAuthCreate(p)
  \/ \E p \in Procs : Quiet(p) /\ Return(p)
  \/ Tick

SeqSpec == Init /\ [][SeqNext]_vars

\* ---- the OTP service called directly, one call at a time, with register and verify_otp ----
\* code = generate_otp(); await redis.set(key, code, ex=OTP_EXPIRE_SECONDS); return code
OtpIssue(p, email) ==
  /\ Begin(p, [NoReq EXCEPT !.op = "issue_otp", !.email = email])
  /\ IF redisUp
     THEN /\ \E code \in Codes :
               /\ issue_otp(email, code)
               /\ loc' = [loc EXCEPT ![p].otp_code = code]
          /\ Done(p, Returned(NoToken))
     ELSE /\ loc' = [loc EXCEPT ![p].outage = TRUE]
          /\ Done(p, ErrRedis)
          /\ UNCHANGED <<redis, issued, accepts, fresh, live>>
  /\ UNCHANGED <<users, nextId, now, redisUp, OAuthVars, UtilVars, inbox, otpVerified, undelivered, verifiedBy>>

\* stored = await redis.get(key); return False on an absent or different code
OtpValidateGet(p, email, code) ==
  /\ Begin(p, [NoReq EXCEPT !.op = "validate_otp", !.email = email, !.code = code])
  /\ IF redisUp
     THEN /\ validate_otp_read(p, email, code)
          /\ IF validate_otp_mismatch(email, code)
             THEN Done(p, Returned(NoToken))
             ELSE Goto(p, "val_delete")
     ELSE /\ loc' = [loc EXCEPT ![p].outage = TRUE]
          /\ Done(p, ErrRedis)
          /\ UNCHANGED <<redis, live>>
  /\ UNCHANGED <<users, nextId, now, redisUp, OAuthVars, UtilVars,
                 inbox, issued, accepts, otpVerified, fresh, undelivered, verifiedBy>>

\* await redis.delete(key); return True
OtpValidateDelete(p) ==
  /\ At(p, "val_delete")
  /\ IF redisUp
     THEN /\ validate_otp_consume(req[p].email, req[p].code)
          /\ loc' = [loc EXCEPT ![p].is_valid = "True"]
          /\ Done(p, Returned(NoToken))
     ELSE /\ loc' = [loc EXCEPT ![p].outage = TRUE]
          /\ Done(p, ErrRedis)
          /\ UNCHANGED <<redis, accepts, otpVerified, fresh, live>>
  /\ UNCHANGED <<users, nextId, now, redisUp, OAuthVars, UtilVars, req, calls, inbox, issued, undelivered, verifiedBy>>

\* await redis.delete(key)
OtpInvalidate(p, email) ==
  /\ Begin(p, [NoReq EXCEPT !.op = "invalidate", !.email = email])
  /\ IF redisUp
     THEN /\ invalidate(email)
          /\ Done(p, Returned(NoToken))
          /\ UNCHANGED loc
     ELSE /\ loc' = [loc EXCEPT ![p].outage = TRUE]
          /\ Done(p, ErrRedis)
          /\ UNCHANGED <<redis, fresh, live>>
  /\ UNCHANGED <<users, nextId, now, redisUp, OAuthVars, UtilVars, inbox, issued, accepts, otpVerified, undelivered, verifiedBy>>

\* the Redis server goes away or comes back
RedisFlip ==
  /\ \A q \in Procs : pc[q] # "done"
  /\ redisUp' = ~redisUp
  /\ UNCHANGED <<users, nextId, redis, now, pc, req, loc, result, calls, HistVars, OAuthVars, UtilVars>>

OtpNext ==
  \/ \E p \in Procs, email \in Emails : Quiet(p) /\ calls < MaxOtpCalls /\ OtpIssue(p, email)
  \/ \E p \in Procs, email \in Emails, code \in Codes : Quiet(p) /\ calls < MaxOtpCalls /\ OtpValidateGet(p, email, code)
  \/ \E p \in Procs : Quiet(p) /\ OtpValidateDelete(p)
  \/ \E p \in Procs, email \in Emails : Quiet(p) /\ calls < MaxOtpCalls /\ OtpInvalidate(p, email)
  \/ \E p \in Procs, email \in RaceEmails, password \in RacePasswords : Quiet(p) /\ calls < MaxOtpCalls /\ RegisterCheck(p, email, password)
  \/ \E p \in Procs : Quiet(p) /\ RegisterCommit(p)
  \/ \E p \in Procs : Quiet(p) /\ RegisterIssue(p)
  \/ \E p \in Procs : Quiet(p) /\ RegisterSend(p)
  \/ \E p \in Procs : Quiet(p) /\ RegisterInvalidate(p)
  \/ \E p \in Procs, email \in RaceEmails, code \in Codes : Quiet(p) /\ calls < MaxOtpCalls /\ VerifyLookup(p, email, code)
  \/ \E p \in Procs : Quiet(p) /\ VerifyGet(p)
  \/ \E p \in Procs : Quiet(p) /\ VerifyDelete(p)
  \/ \E p \in Procs : Quiet(p) /\ VerifyCommit(p)
  \/ \E p \in Procs : Quiet(p) /\ Return(p)
  \/ Elapse(MaxOtpTime)
  \/ RedisFlip

OtpSpec == Init /\ [][OtpNext]_vars

\* ---- OAuthSpec: the OAuth start and callback routes, one request at a time ----
\* half a second passes
HalfSecond ==
  /\ \A q \in Procs : pc[q] = "idle"
  /\ frac = 0
  /\ frac' = 1
  /\ UNCHANGED <<StoreVars, now, redisUp, settings, UtilVars, minted, mintedFor, pc, req, loc, result, calls, HistVars>>

\* what GitHub's email listing can hold
Listings ==
  LET First == [email : {"a@x.com"}, primary : BOOLEAN, verified : BOOLEAN]
      Second == [email : {"b@x.com"}, primary : {TRUE}, verified : BOOLEAN] IN
    {<<>>} \cup {<<e>> : e \in First} \cup {<<e, f>> : e \in First, f \in Second}

OAuthInit == InitStore /\ settings \in Deployments /\ smtp = SmtpConfigured

OAuthNext ==
  \/ \E p \in Procs, provider \in Providers, redirect_uri \in RedirectOverrides, nonce \in Nonces :
       Quiet(p) /\ calls < MaxOAuthCalls /\ Cardinality(minted) < MaxMinted
       /\ OAuthStart(p, provider, redirect_uri, nonce)
  \/ \E p \in Procs, provider \in Providers, state \in PresentedStates, redirect_uri \in RedirectOverrides :
       Quiet(p) /\ calls < MaxOAuthCalls /\ CallbackBegin(p, provider, state, redirect_uri)
  \/ \E p \in Procs, status_code \in {200, 400}, access_token \in BOOLEAN :
       Quiet(p) /\ CallbackToken(p, status_code, access_token)
  \/ \E p \in Procs, status_code \in {200, 401}, sub \in {None, "1"}, id \in {0, 1}, email \in RaceEmails \cup {None} :
       Quiet(p) /\ CallbackProfile(p, status_code, sub, id, email)
  \/ \E p \in Procs, entries \in Listings : Quiet(p) /\ CallbackEmails(p, 200, entries)
  \/ \E p \in Procs : Quiet(p) /\ CallbackEmails(p, 403, <<>>)
  \/ \E p \in Procs : Quiet(p) /\ CallbackLogin(p)
  \/ \E p \in Procs : Quiet(p) /\ OAuthUpdate(p)
  \/ \E p \in Procs : Quiet(p) /\ OAuthCreate(p)
  \/ \E p \in Procs : Quiet(p) /\ Return(p)
  \/ ElapseBy(StateTick, MaxStateTime)
  \/ HalfSecond

OAuthSpec == OAuthInit /\ [][OAuthNext]_vars

\* ---- BindSpec: the OAuth routes of the fully configured deployment with providers that ----
\* ---- answer, and a record of the provider and redirect override of each state handed out ----
\* the oauth_start request, and what its state was handed out for
OAuthStartRecorded(p, provider, redirect_uri, nonce) ==
  /\ Begin(p, [NoReq EXCEPT !.op = "oauth_start", !.provider = provider, !.redirect_uri = redirect_uri])
  /\ LET state == generate_state(nonce) IN
       /\ minted' = minted \cup {state}
       /\ mintedFor' = IF Missing(provider, redirect_uri) THEN mintedFor
                       ELSE mintedFor \cup {[state |-> state, provider |-> provider, redirect_uri |-> redirect_uri]}
       /\ IF Missing(provider, redirect_uri)
          THEN Done(p, ErrNotConfigured(provider)) /\ UNCHANGED loc
          ELSE /\ loc' = [loc EXCEPT ![p].state = state,
                                     ![p].url = [base |-> AuthorizeEndpoint(provider),
                                                 client_id |-> settings[provider].client_id,
                                                 redirect_uri |-> IF redirect_uri # None THEN redirect_uri
                                                                  ELSE settings[provider].redirect_uri,
                                                 state |-> urlencode(state)]]
               /\ Done(p, Returned(NoToken))
  /\ UNCHANGED <<StoreVars, now, redisUp, settings, UtilVars, frac, HistVars>>

BindNext ==
  \/ \E p \in Procs, provider \in Providers, redirect_uri \in RedirectOverrides, nonce \in Nonces :
       Quiet(p) /\ calls < MaxOAuthCalls /\ Cardinality(minted) < MaxMinted
       /\ OAuthStartRecorded(p, provider, redirect_uri, nonce)
  \/ \E p \in Procs, provider \in Providers, state \in minted, redirect_uri \in RedirectOverrides :
       Quiet(p) /\ calls < MaxOAuthCalls /\ CallbackBegin(p, provider, state, redirect_uri)
  \/ \E p \in Procs : Quiet(p) /\ CallbackToken(p, 200, TRUE)
  \/ \E p \in Procs, email \in RaceEmails \cup {None} : Quiet(p) /\ CallbackProfile(p, 200, "1", 1, email)
  \/ \E p \in Procs, entries \in Listings : Quiet(p) /\ CallbackEmails(p, 200, entries)
  \/ \E p \in Procs : Quiet(p) /\ CallbackLogin(p)
  \/ \E p \in Procs : Quiet(p) /\ OAuthUpdate(p)
  \/ \E p \in Procs : Quiet(p) /\ OAuthCreate(p)
  \/ \E p \in Procs : Quiet(p) /\ Return(p)
  \/ ElapseBy(StateTick, MaxStateTime)

BindSpec == Init /\ [][BindNext]_vars

\* ---- RepoSpec: register and verify_otp, one request at a time, over a repository ----
\* ---- that can fail at the commit of verify_otp                                    ----
\* session.commit() of verify_otp raises: the database is unreachable or the transaction fails
VerifyCommitFails(p) ==
  /\ At(p, "ver_commit")
  /\ Done(p, ErrDatabase)
  /\ UNCHANGED <<StoreVars, now, redisUp, OAuthVars, UtilVars, req, loc, calls, HistVars>>

RepoNext ==
  \/ \E p \in Procs, email \in RaceEmails, password \in RacePasswords : Quiet(p) /\ calls < MaxRepoCalls /\ RegisterCheck(p, email, password)
  \/ \E p \in Procs : Quiet(p) /\ RegisterCommit(p)
  \/ \E p \in Procs : Quiet(p) /\ RegisterIssue(p)
  \/ \E p \in Procs : Quiet(p) /\ RegisterSend(p)
  \/ \E p \in Procs : Quiet(p) /\ RegisterInvalidate(p)
  \/ \E p \in Procs, email \in RaceEmails, code \in Codes : Quiet(p) /\ calls < MaxRepoCalls /\ VerifyLookup(p, email, code)
  \/ \E p \in Procs : Quiet(p) /\ VerifyGet(p)
  \/ \E p \in Procs : Quiet(p) /\ VerifyDelete(p)
  \/ \E p \in Procs : Quiet(p) /\ VerifyCommit(p)
  \/ \E p \in Procs : Quiet(p) /\ VerifyCommitFails(p)
  \/ \E p \in Procs : Quiet(p) /\ Return(p)
  \/ Tick

RepoSpec == Init /\ [][RepoNext]_vars

\* ---- MailSpec and GenerateSpec: send_otp_email and generate_otp called directly ----
\* _send in its worker thread: the exception it ends with, or none
_send(failure) ==
  IF smtp.SMTP_SERVER = None \/ smtp.SMTP_USERNAME = None \/ smtp.SMTP_PASSWORD = None \/ smtp.FROM_EMAIL = None
  THEN [type |-> "RuntimeError", message |-> "SMTP settings are incomplete."]
  ELSE IF failure # None THEN SmtpError(failure)
  ELSE NoException

\* send_otp_email without its try/except
run_sync_uncaught(exc) ==
  IF exc = NoException THEN [returned |-> <<TRUE, None>>, raised |-> NoException]
  ELSE [returned |-> <<>>, raised |-> exc]

\* try: await anyio.to_thread.run_sync(_send); return True, None
\* except Exception as exc: return False, str(exc)
run_sync(exc) ==
  IF exc = NoException THEN [returned |-> <<TRUE, None>>, raised |-> NoException]
  ELSE [returned |-> <<FALSE, exc.message>>, raised |-> NoException]

SendOtpEmail(email, otp_code, failure) ==
  /\ \A q \in Procs : pc[q] = "idle"
  /\ calls' = calls + 1
  /\ LET out == run_sync(_send(failure)) IN
       /\ direct' = [NoCall EXCEPT !.fn = "send_otp_email", !.email = email, !.otp_code = otp_code,
                                   !.failure = failure, !.returned = out.returned, !.raised = out.raised]
       /\ send_otp_email(email, otp_code, out.returned = <<TRUE, None>>)
  /\ UNCHANGED <<StoreVars, now, redisUp, OAuthVars, smtp, pc, req, loc, result,
                 issued, accepts, otpVerified, fresh, undelivered, verifiedBy, live>>

\* the decimal digits of n, most significant first
RECURSIVE Digits(_)
Digits(n) == IF n < 10 THEN <<n>> ELSE Append(Digits(n \div 10), n % 10)

\* f"{n:0{width}d}": zeros in front until the text is width characters long
RECURSIVE ZeroPad(_, _)
ZeroPad(digits, width) == IF Len(digits) >= width THEN digits ELSE ZeroPad(<<0>> \o digits, width)

\* generate_otp that does not pad
generate_otp_unpadded(length, n) == Digits(n)

\* f"{secrets.randbelow(upper_bound):0{length}d}", n being what randbelow drew
generate_otp(length, n) == ZeroPad(Digits(n), length)

\* upper_bound = 10 ** length; secrets.randbelow(upper_bound) draws from [0, upper_bound)
GenerateOtp(length) ==
  /\ \A q \in Procs : pc[q] = "idle"
  /\ calls' = calls + 1
  /\ \E n \in 0..(10 ^ length - 1) :
       direct' = [NoCall EXCEPT !.fn = "generate_otp", !.length = length, !.n = n,
                                !.returned = generate_otp(length, n)]
  /\ UNCHANGED <<StoreVars, now, redisUp, OAuthVars, smtp, pc, req, loc, result, HistVars>>

MailInit == InitStore /\ settings = Configured /\ smtp \in SmtpDeployments

MailNext ==
  \E email \in Emails, otp_code \in Codes, failure \in SmtpFailures \cup {None} :
    calls < MaxUtilCalls /\ SendOtpEmail(email, otp_code, failure)

MailSpec == MailInit /\ [][MailNext]_vars

GenerateNext == \E length \in 0..MaxLength : calls < MaxUtilCalls /\ GenerateOtp(length)

GenerateSpec == Init /\ [][GenerateNext]_vars

TypeOK ==
  /\ \A u \in users : u.id \in 1..(nextId - 1) /\ u.email \in Emails
  /\ \A k \in DOMAIN redis : redis[k].code \in Codes /\ redis[k].exp > now
  /\ calls \in Nat


\* ---- properties ----
IsLocal(u) == u.auth_provider = "local"
Finished(p, op) == pc[p] = "done" /\ req[p].op = op
Account(email) == get_user_by_email(email)

\* C1: a validate_otp call made after the same code was already accepted for that
\* email, with no issue_otp for the email in between, returns False.
C1_ValidateOnce ==
  \A p \in Procs : loc[p].late => pc[p] = "done" /\ result[p] = ErrInvalidCode

C1_Witness ==
  \E p \in Procs : loc[p].late /\ Finished(p, "verify_otp") /\ result[p] = ErrInvalidCode

\* C2: for one issued code, at most one validate_otp caller observes True, under
\* every interleaving of the get and delete steps of concurrent callers.
C2_AtMostOneTrue ==
  \A e \in Emails : Len(accepts[e]) <= 1

\* C3: a local account is verified or active only if validate_otp returned True, inside
\* a verify_otp call for its email, for a code issue_otp had stored for that email; and
\* the only step that turns a local account verified or active is verify_otp's commit.
C3_LocalVerifiedOnlyByOtp ==
  /\ [](\A u \in users : IsLocal(u) /\ (u.is_verified \/ u.is_active) => u.email \in otpVerified)
  /\ [][\A u \in users : \A v \in users' :
          (v.id = u.id /\ IsLocal(u) /\ ~(u.is_verified /\ u.is_active) /\ (v.is_verified \/ v.is_active))
          => \E p \in Procs : req[p].op = "verify_otp" /\ req[p].email = u.email
                              /\ pc[p] = "ver_commit" /\ pc'[p] = "done"]_vars

C3_Witness ==
  \E u \in users : IsLocal(u) /\ u.is_verified /\ u.is_active /\ u.email \in otpVerified

\* C4: verify_otp with the code that register delivered (still within its time-to-live,
\* no issue, invalidate or consumption since) succeeds and leaves the account verified
\* and active; a login with the registered password on the verified account returns a
\* token for that email.
C4_HappyPath ==
  \A p \in Procs :
    /\ (Finished(p, "verify_otp") /\ loc[p].freshBy = "register")
         => /\ result[p] = Returned(NoToken)
            /\ Account(req[p].email).is_verified /\ Account(req[p].email).is_active
    /\ (Finished(p, "login") /\ IsLocal(Account(req[p].email))
          /\ verifiedBy[req[p].email] = "register" /\ Account(req[p].email).is_verified
          /\ Account(req[p].email).hashed_password = get_password_hash(req[p].password))
         => /\ result[p].status = 200
            /\ result[p].token.sub = req[p].email

C4_Witness ==
  \E p \in Procs :
    /\ Finished(p, "login") /\ result[p].status = 200 /\ result[p].token.sub = req[p].email
    /\ verifiedBy[req[p].email] = "register" /\ IsLocal(Account(req[p].email))


\* the step in which handler p takes a login request and answers it
LoginStep(p) == pc[p] = "idle" /\ pc'[p] = "done" /\ req'[p].op = "login"

\* C5: login mints a token only for an existing, local, verified account whose password
\* verifies; for a local account that has not completed OTP verification, login with the
\* right password fails "not verified", and no token is issued.
C5_LoginGate ==
  [][\A p \in Procs : LoginStep(p) =>
       LET u == Account(req'[p].email) IN
         /\ result'[p].token # NoToken =>
              /\ u.id # 0 /\ IsLocal(u) /\ u.is_verified
              /\ verify_password(req'[p].password, u.hashed_password)
         /\ (u.id # 0 /\ IsLocal(u) /\ ~u.is_verified
               /\ verify_password(req'[p].password, u.hashed_password))
              => result'[p] = ErrNotVerified
         /\ (u.id # 0 /\ ~u.is_verified) => result'[p].token = NoToken]_vars

C5_Witness ==
  \E p \in Procs : /\ Finished(p, "login") /\ result[p] = ErrNotVerified
                   /\ ~Account(req[p].email).is_verified

\* C5 as first stated: login on any account that has not completed OTP verification
\* fails "not verified".
C5_UnverifiedAlwaysNotVerified ==
  [][\A p \in Procs : LoginStep(p) =>
       LET u == Account(req'[p].email) IN
         (u.id # 0 /\ ~u.is_verified) => result'[p] = ErrNotVerified]_vars

\* C6: login on an account whose provider is not local fails with the same outcome as a
\* wrong password or an unknown email ("incorrect credentials").
C6_UniformLoginFailure ==
  \A p \in Procs :
    (Finished(p, "login") /\ Account(req[p].email).id # 0 /\ ~IsLocal(Account(req[p].email)))
      => result[p] = ErrCredentials

\* the step in which handler p takes a register request for an email that has an account
RegisterExistingStep(p) ==
  /\ pc[p] = "idle" /\ pc'[p] # "idle" /\ req'[p].op = "register"
  /\ Account(req'[p].email).id # 0

\* C7: register for an email that already has an account fails "already exists" at once:
\* no OTP is issued, no email is sent, and the accounts and the stored OTPs stay as they were.
C7_RegisterDuplicateRejected ==
  [][\A p \in Procs : RegisterExistingStep(p) =>
       /\ pc'[p] = "done" /\ result'[p] = ErrExists
       /\ users' = users /\ nextId' = nextId /\ redis' = redis
       /\ issued' = issued /\ inbox' = inbox]_vars

C7_Witness ==
  \E p \in Procs : /\ Finished(p, "register") /\ result[p] = ErrExists
                   /\ Account(req[p].email).id # 0 /\ loc[p].otp_code = None

\* C8: a register call whose commit hits the unique index on email fails with the same
\* "already exists" outcome as a pre-check hit.
C8_ConflictAtCommitIsAlreadyExists ==
  \A p \in Procs : (Finished(p, "register") /\ loc[p].conflict) => result[p] = ErrExists

\* C9: at most one account exists per email, under every interleaving of register and
\* login_with_oauth calls.
C9_OneAccountPerEmail ==
  \A u \in users : \A v \in users : u.email = v.email => u.id = v.id

C9_Witness ==
  /\ \E p \in Procs : loc[p].conflict /\ pc[p] = "done"
  /\ users # {}

\* C10: a register call whose delivery fails ends in "delivery failed" with the account
\* persisted inactive and unverified and no OTP stored for the email; a later resend_otp whose
\* delivery works succeeds and stores the code it sent, and verify_otp with that code succeeds.
C10_DeliveryFailureRecovery ==
  \A p \in Procs :
    LET e == req[p].email IN
    /\ (Finished(p, "register") /\ loc[p].sent = "False")
         => /\ result[p] = ErrSend
            /\ Account(e).id # 0 /\ ~Account(e).is_active /\ ~Account(e).is_verified
            /\ RedisGet(_otp_key(e)) = None
    /\ (Finished(p, "resend_otp") /\ e \in undelivered /\ loc[p].sent = "True")
         => /\ result[p] = Returned(NoToken)
            /\ RedisGet(_otp_key(e)) = loc[p].otp_code
    /\ (Finished(p, "verify_otp") /\ e \in undelivered /\ loc[p].freshBy = "resend_otp")
         => /\ result[p] = Returned(NoToken)
            /\ Account(e).is_verified /\ Account(e).is_active

C10_Witness ==
  \E p \in Procs :
    /\ Finished(p, "verify_otp") /\ req[p].email \in undelivered
    /\ loc[p].freshBy = "resend_otp" /\ result[p] = Returned(NoToken)
    /\ Account(req[p].email).is_verified

\* what the validate_otp call of handler p found, by the record of the calls: the code of the
\* latest issue_otp was still live when the call read the store
SeenLive(p) == loc[p].seen.code # None /\ now - loc[p].seen.at < OTP_EXPIRE_SECONDS
Validated(p) == pc[p] = "done" /\ req[p].op \in {"validate_otp", "verify_otp"} /\ loc[p].is_valid # None

\* C11: after issue_otp overwrote a live code c1 with c2 (c1 # c2), validate_otp with c1
\* returns False and validate_otp with c2 returns True.
C11_ReissueSupersedes ==
  \A p \in Procs :
    (Validated(p) /\ SeenLive(p) /\ loc[p].seen.prev # None) =>
      /\ (req[p].code = loc[p].seen.prev /\ loc[p].seen.prev # loc[p].seen.code) => loc[p].is_valid = "False"
      /\ req[p].code = loc[p].seen.code => loc[p].is_valid = "True"

C11_Witness ==
  \E p \in Procs :
    /\ Validated(p) /\ SeenLive(p) /\ loc[p].seen.prev # None /\ loc[p].seen.prev # loc[p].seen.code
    /\ loc[p].seen.rejected /\ req[p].code = loc[p].seen.code /\ loc[p].is_valid = "True"

\* C11 as first stated: the same for every pair of codes c1, c2 the generator can produce.
C11_ReissueSupersedesAnyPair ==
  \A p \in Procs :
    (Validated(p) /\ SeenLive(p) /\ loc[p].seen.prev # None) =>
      /\ req[p].code = loc[p].seen.prev => loc[p].is_valid = "False"
      /\ req[p].code = loc[p].seen.code => loc[p].is_valid = "True"

\* C12: every email has at most one stored code, and it is the code of the latest issue_otp
\* for that email not since consumed, invalidated or expired; validate_otp returns True for
\* no other code.
C12_OneLiveCodePerEmail ==
  /\ \A e \in Emails :
       RedisGet(_otp_key(e)) = IF IsLive(e) THEN live[e].code ELSE None
  /\ \A p \in Procs :
       (Validated(p) /\ loc[p].is_valid = "True") => SeenLive(p) /\ req[p].code = loc[p].seen.code

C12_Witness ==
  \E p \in Procs :
    /\ Validated(p) /\ loc[p].is_valid = "True" /\ req[p].code = loc[p].seen.code
    /\ \E e \in Emails : e # req[p].email /\ IsLive(e) /\ live[e].code # req[p].code

\* C13: validate_otp with the issued code returns False once more than OTP_EXPIRE_SECONDS
\* have passed since the issue_otp that stored it, and verify_otp then fails "invalid or
\* expired" and writes no account; within OTP_EXPIRE_SECONDS of the latest issue_otp the
\* code is accepted, however old the code that issue overwrote.
C13_TimeToLive ==
  /\ [](\A p \in Procs :
         (Validated(p) /\ req[p].code = loc[p].seen.code) =>
           /\ now - loc[p].seen.at > OTP_EXPIRE_SECONDS =>
                /\ loc[p].is_valid = "False"
                /\ req[p].op = "verify_otp" => result[p] = ErrInvalidCode
           /\ now - loc[p].seen.at < OTP_EXPIRE_SECONDS => loc[p].is_valid = "True")
  /\ [][\A p \in Procs :
          (pc[p] = "ver_get" /\ pc'[p] = "done" /\ result'[p] = ErrInvalidCode) => users' = users]_vars

C13_Witness ==
  \E p \in Procs :
    /\ Finished(p, "verify_otp") /\ req[p].code = loc[p].seen.code
    /\ now - loc[p].seen.at > OTP_EXPIRE_SECONDS
    /\ result[p] = ErrInvalidCode /\ ~Account(req[p].email).is_verified

\* a code accepted after the time-to-live of the code it replaced had run out
C13_RestartReached ==
  \E p \in Procs :
    /\ Validated(p) /\ loc[p].is_valid = "True" /\ loc[p].seen.prev # None
    /\ now - loc[p].seen.prevAt >= OTP_EXPIRE_SECONDS

\* C14: verify_otp fails "not found" when no account has the email and "invalid or expired"
\* when validate_otp returns False, and a failing verify_otp writes no account; when
\* validate_otp returns True the account is committed verified and active.
C14_VerifyOutcomes ==
  [][\A p \in Procs : (req'[p].op = "verify_otp" /\ pc'[p] # pc[p]) =>
       /\ pc[p] = "idle" =>
            IF Account(req'[p].email).id = 0
            THEN pc'[p] = "done" /\ result'[p] = ErrNotFound
            ELSE pc'[p] = "ver_get"
       /\ pc[p] = "ver_get" =>
            IF loc'[p].is_valid = "False"
            THEN pc'[p] = "done" /\ result'[p] = ErrInvalidCode
            ELSE pc'[p] = "ver_delete"
       /\ pc[p] = "ver_delete" => loc'[p].is_valid = "True" /\ pc'[p] = "ver_commit"
       /\ pc[p] = "ver_commit" =>
            /\ pc'[p] = "done" /\ result'[p] = Returned(NoToken)
            /\ \E u \in users' : u.email = req[p].email /\ u.is_verified /\ u.is_active
       /\ result'[p] \in {ErrNotFound, ErrInvalidCode} => users' = users]_vars

\* a verify_otp that succeeded after an earlier one was turned down with a wrong code
C14_Witness ==
  \E p \in Procs : /\ Finished(p, "verify_otp") /\ result[p] = Returned(NoToken)
                   /\ loc[p].seen.rejected /\ loc[p].is_valid = "True"
                   /\ Account(req[p].email).is_verified /\ Account(req[p].email).is_active

\* C15: a validate_otp that returns False writes nothing to the store, and the live code of
\* the email is accepted by a later validate_otp whatever wrong guesses came before.
C15_FalseLeavesStore ==
  /\ [][\A p \in Procs :
          (loc[p].is_valid = None /\ loc'[p].is_valid = "False") => redis' = redis]_vars
  /\ [](\A p \in Procs :
         (Validated(p) /\ SeenLive(p) /\ loc[p].seen.rejected /\ req[p].code = loc[p].seen.code)
           => loc[p].is_valid = "True")

C15_Witness ==
  \E p \in Procs :
    /\ Finished(p, "validate_otp") /\ loc[p].seen.rejected /\ loc[p].seen.prev = None
    /\ req[p].code = loc[p].seen.code /\ loc[p].is_valid = "True"
    /\ RedisGet(_otp_key(req[p].email)) = None

\* C16: resend_otp fails "not found" without issuing a code when no account has the email;
\* otherwise it issues a code and attempts delivery, and on a failed delivery deletes the
\* stored code and fails; no step of it creates or changes an account.
C16_ResendFrame ==
  [][\A p \in Procs : (req'[p].op = "resend_otp" /\ pc'[p] # pc[p]) =>
       LET e == req'[p].email IN
       /\ users' = users /\ nextId' = nextId
       /\ pc[p] = "idle" =>
            IF Account(e).id = 0
            THEN /\ pc'[p] = "done" /\ result'[p] = ErrNotFound
                 /\ redis' = redis /\ issued' = issued /\ inbox' = inbox
            ELSE pc'[p] = "res_issue"
       /\ pc[p] = "res_issue" =>
            /\ pc'[p] = "res_send" /\ loc'[p].otp_code \in Codes
            /\ issued'[e] = issued[e] \cup {loc'[p].otp_code}
            /\ _otp_key(e) \in DOMAIN redis' /\ redis'[_otp_key(e)].code = loc'[p].otp_code
       /\ pc[p] = "res_send" =>
            IF loc'[p].sent = "True"
            THEN pc'[p] = "done" /\ result'[p] = Returned(NoToken) /\ loc[p].otp_code \in inbox'[e]
            ELSE pc'[p] = "res_invalidate" /\ inbox' = inbox
       /\ pc[p] = "res_invalidate" =>
            /\ pc'[p] = "done" /\ result'[p] = ErrSend
            /\ _otp_key(e) \notin DOMAIN redis']_vars

C16_Witness ==
  \E p \in Procs :
    /\ Finished(p, "resend_otp") /\ result[p] = ErrSend /\ loc[p].sent = "False"
    /\ loc[p].otp_code \in issued[req[p].email]
    /\ RedisGet(_otp_key(req[p].email)) = None
    /\ Account(req[p].email).id # 0

\* the step of handler p in which validate_otp calls the store
ValidateStep(p) ==
  /\ pc'[p] # pc[p]
  /\ \/ req'[p].op = "validate_otp"
     \/ req[p].op = "verify_otp" /\ pc[p] \in {"ver_get", "ver_delete"}

\* C17: when the store does not answer, validate_otp does not return False and verify_otp
\* does not fail "invalid or expired": the call ends in the store's own error, and neither
\* the accounts nor the stored codes change.
C17_OutageIsNotFalse ==
  [][\A p \in Procs : (ValidateStep(p) /\ ~redisUp) =>
       /\ pc'[p] = "done" /\ result'[p] = ErrRedis /\ result'[p] # ErrInvalidCode
       /\ loc'[p].is_valid = loc[p].is_valid /\ loc'[p].is_valid \notin {"False", "True"}
       /\ users' = users /\ redis' = redis]_vars

C17_Witness ==
  \E p \in Procs :
    /\ Finished(p, "verify_otp") /\ loc[p].outage /\ result[p] = ErrRedis
    /\ RedisGet(_otp_key(req[p].email)) = req[p].code
    /\ Account(req[p].email).id # 0 /\ ~Account(req[p].email).is_verified

\* C18: every account that is verified is active.
C18_VerifiedImpliesActive ==
  \A u \in users : u.is_verified => u.is_active

C18_Witness ==
  \E p \in Procs :
    /\ Finished(p, "login_with_oauth") /\ result[p].status = 200
    /\ Account(req[p].email).is_verified /\ Account(req[p].email).is_active

\* C19: every local account holds a password hash, and every account of another provider
\* holds a provider_id and no password hash.
C19_ProviderFields ==
  \A u \in users :
    /\ IsLocal(u) => u.hashed_password # None
    /\ ~IsLocal(u) => u.provider_id # None /\ u.hashed_password = None

C19_Witness ==
  /\ \E u \in users : IsLocal(u) /\ u.hashed_password = get_password_hash("pw")
  /\ \E u \in users : u.auth_provider = "github" /\ u.provider_id = "2" /\ u.hashed_password = None

\* C20: no two accounts share the same (auth_provider, provider_id) pair, also when one
\* provider subject logs in with two different emails.
C20_ProviderIdUnique ==
  \A u \in users : \A v \in users :
    (u.provider_id # None /\ u.auth_provider = v.auth_provider /\ u.provider_id = v.provider_id)
      => u.id = v.id

\* a step of the login_with_oauth call of handler p
OAuthStep(p) == req'[p].op = "login_with_oauth" /\ pc'[p] # pc[p]

\* C21: login_with_oauth for a profile whose email has no account creates exactly one account
\* with that email, verified and active, with the profile's provider and id and no password
\* hash, and returns a token whose subject is the email.
C21_OAuthCreatesAccount ==
  [][\A p \in Procs : OAuthStep(p) =>
       LET profile == req'[p].profile IN
       /\ (pc[p] = "idle" /\ profile.email # None /\ Account(profile.email).id = 0)
            => pc'[p] = "oauth_create" /\ users' = users
       /\ pc[p] = "oauth_create" =>
            /\ pc'[p] = "done"
            /\ users' = users \cup {[id |-> nextId, email |-> profile.email, hashed_password |-> None,
                                     auth_provider |-> profile.provider,
                                     provider_id |-> profile.provider_id,
                                     is_active |-> TRUE, is_verified |-> TRUE]}
            /\ Cardinality({u \in users' : u.email = profile.email}) = 1
            /\ Cardinality(users') = Cardinality(users) + 1
            /\ result'[p].status = 200 /\ result'[p].token.sub = profile.email]_vars

C21_Witness ==
  \E p \in Procs :
    /\ Finished(p, "login_with_oauth") /\ result[p].status = 200
    /\ result[p].token.sub = req[p].profile.email
    /\ Account(req[p].email).id = nextId - 1
    /\ Account(req[p].email).auth_provider = req[p].profile.provider
    /\ Cardinality(users) = 2

\* C22: login_with_oauth for a profile whose email belongs to an account of another provider
\* (a local account in particular) fails "provider mismatch", mints no token and leaves the
\* accounts as they were.
C22_ProviderMismatch ==
  [][\A p \in Procs : OAuthStep(p) =>
       LET profile == req'[p].profile
           user == Account(profile.email) IN
       (pc[p] = "idle" /\ profile.email # None /\ user.id # 0
          /\ user.auth_provider # profile.provider)
         => /\ pc'[p] = "done" /\ result'[p] = ErrProviderMismatch
            /\ result'[p].token = NoToken
            /\ users' = users /\ nextId' = nextId]_vars

C22_Witness ==
  \E p \in Procs :
    /\ Finished(p, "login_with_oauth") /\ result[p] = ErrProviderMismatch
    /\ IsLocal(Account(req[p].email)) /\ ~Account(req[p].email).is_verified
    /\ Account(req[p].email).provider_id = None

\* C23: login_with_oauth for an account of the profile's provider fails "provider id mismatch"
\* (no token, accounts unchanged) when the account stores another provider_id; otherwise it
\* keeps a stored provider_id, fills in a missing one from the profile, commits the account
\* verified and active and mints a token; a stored provider_id never changes.
C23_ProviderId ==
  [][\A p \in Procs : OAuthStep(p) =>
       LET profile == req'[p].profile
           user == Account(profile.email) IN
       /\ (pc[p] = "idle" /\ profile.email # None /\ user.id # 0
             /\ user.auth_provider = profile.provider) =>
            IF user.provider_id # None /\ user.provider_id # profile.provider_id
            THEN /\ pc'[p] = "done" /\ result'[p] = ErrProviderIdMismatch
                 /\ result'[p].token = NoToken /\ users' = users
            ELSE pc'[p] = "oauth_update" /\ users' = users
       /\ pc[p] = "oauth_update" =>
            /\ pc'[p] = "done" /\ result'[p].status = 200 /\ result'[p].token.sub = user.email
            /\ users' = (users \ {user}) \cup
                 {[user EXCEPT !.provider_id = IF @ # None THEN @ ELSE profile.provider_id,
                               !.is_verified = TRUE, !.is_active = TRUE]}
       /\ \A u \in users : \A v \in users' :
            (u.id = v.id /\ u.provider_id # None) => v.provider_id = u.provider_id]_vars

C23_Witness ==
  \E p \in Procs :
    /\ Finished(p, "login_with_oauth") /\ result[p] = ErrProviderIdMismatch
    /\ Account(req[p].email).auth_provider = req[p].profile.provider
    /\ Account(req[p].email).provider_id # req[p].profile.provider_id

\* a second login of the same provider subject
C23_ReloginReached ==
  \E p \in Procs :
    /\ Finished(p, "login_with_oauth") /\ result[p].status = 200 /\ loc[p].user_id # 0
    /\ Account(req[p].email).provider_id = req[p].profile.provider_id

\* C24: login_with_oauth with a profile that has no email fails "no email from provider";
\* no account is created or changed and no token is minted.
C24_NoEmail ==
  [][\A p \in Procs : (OAuthStep(p) /\ pc[p] = "idle" /\ req'[p].profile.email = None) =>
       /\ pc'[p] = "done" /\ result'[p] = ErrNoEmail /\ result'[p].token = NoToken
       /\ users' = users /\ nextId' = nextId]_vars

C24_Witness ==
  \E p \in Procs :
    /\ Finished(p, "login_with_oauth") /\ req[p].profile.email = None
    /\ result[p] = ErrNoEmail /\ users # {}

\* the handler p serves an OAuth callback; validate_state has looked at the state it presents
Callback(p) == req[p].op = "oauth_callback"
\* the age of a state token, in half seconds: the clock less the token's timestamp
HalfSeconds(state) == 2 * (now - state.ts) + frac
Recomputed(state) == _sign_state(state.nonce, state.ts)

\* C25: validate_state accepts every token generate_state produced while its age (the clock
\* less the token's timestamp) does not exceed OAUTH_STATE_TTL_SECONDS, rejects such a token
\* past that age, and accepts no token that differs from what generate_state produced.
C25_StateGuard ==
  \A p \in Procs : Callback(p) =>
    LET state == req[p].state
        accepted == loc[p].state_error = NoResult IN
      /\ (state \in minted /\ HalfSeconds(state) <= 2 * OAUTH_STATE_TTL_SECONDS) => accepted
      /\ (state \in minted /\ HalfSeconds(state) > 2 * OAUTH_STATE_TTL_SECONDS) => ~accepted
      /\ state \notin minted => ~accepted
      /\ ~accepted => pc[p] = "done" /\ result[p] = loc[p].state_error

\* a token handed out a full OAUTH_STATE_TTL_SECONDS ago has been accepted
C25_Witness ==
  \E p \in Procs :
    /\ Callback(p) /\ req[p].state \in minted /\ loc[p].state_error = NoResult
    /\ now - req[p].state.ts = OAUTH_STATE_TTL_SECONDS /\ pc[p] = "cb_token"

C25_ExpiredReached ==
  \E p \in Procs :
    /\ Finished(p, "oauth_callback") /\ req[p].state \in minted
    /\ result[p] = ErrStateExpired

C25_TamperedReached ==
  \E p \in Procs :
    /\ Finished(p, "oauth_callback") /\ req[p].state = Tamper(CHOOSE m \in minted : TRUE, "later_ts")
    /\ result[p] = ErrStateSignature

\* C26: validate_state fails "Invalid OAuth state." exactly when the token does not split into
\* three parts or its timestamp is not an integer; otherwise "Invalid OAuth state signature."
\* when the recomputed token differs from the presented one, expired or not; otherwise "OAuth
\* state has expired." exactly when the clock less the timestamp is above the time-to-live.
C26_FailurePriority ==
  \A p \in Procs : Callback(p) =>
    LET state == req[p].state
        err == loc[p].state_error IN
      IF ~SplitsInThree(state) \/ ~IsInteger(state) THEN err = ErrState
      ELSE IF Recomputed(state) # state THEN err = ErrStateSignature
      ELSE IF HalfSeconds(state) > 2 * OAUTH_STATE_TTL_SECONDS THEN err = ErrStateExpired
      ELSE err = NoResult

\* C27: when validate_state fails for the state a callback presents, the callback ends with
\* that failure as it is, whatever the provider's settings are, with no call to the token or
\* the profile endpoint, no account created or changed and no token.
C27_StateFirst ==
  [][\A p \in Procs :
       (pc[p] = "idle" /\ req'[p].op = "oauth_callback" /\ validate_state(req'[p].state) # NoResult) =>
         /\ pc'[p] = "done" /\ result'[p] = validate_state(req'[p].state)
         /\ result'[p].token = NoToken /\ loc'[p].http = <<>> /\ req'[p].profile = NoProfile
         /\ users' = users /\ nextId' = nextId]_vars

\* an expired state was presented to a provider that is not configured: the answer is that
\* of validate_state
C27_Witness ==
  \E p \in Procs :
    /\ Finished(p, "oauth_callback") /\ result[p] = ErrStateExpired /\ loc[p].http = <<>>
    /\ settings[req[p].provider].client_secret = None

\* C28: get_authorization_url fails "not configured" exactly when the provider's client id,
\* client secret or effective redirect (the override if given, else the configured one) is
\* absent; otherwise the state it returns is the one in the URL's state parameter, it came
\* from generate_state, and validate_state passes it; so does it every state handed out whose
\* age is within OAUTH_STATE_TTL_SECONDS.
C28_AuthorizationUrl ==
  /\ \A p \in Procs : Finished(p, "oauth_start") =>
       LET s == settings[req[p].provider]
           redirect == IF req[p].redirect_uri # None THEN req[p].redirect_uri ELSE s.redirect_uri
           absent == s.client_id = None \/ s.client_secret = None \/ redirect = None IN
         /\ result[p] = ErrNotConfigured(req[p].provider) <=> absent
         /\ ~absent => /\ result[p].status = 200
                       /\ loc[p].url.redirect_uri = redirect /\ loc[p].url.client_id = s.client_id
                       /\ parse_qs_state(loc[p].url) = loc[p].state
                       /\ loc[p].state \in minted
                       /\ validate_state(loc[p].state) = NoResult
  /\ \A state \in minted :
       HalfSeconds(state) <= 2 * OAUTH_STATE_TTL_SECONDS => validate_state(state) = NoResult

\* the deployment has no redirect of its own and the request brings one: the URL is built
C28_Witness ==
  \E p \in Procs :
    /\ Finished(p, "oauth_start") /\ result[p].status = 200
    /\ settings[req[p].provider].redirect_uri = None /\ req[p].redirect_uri # None
    /\ parse_qs_state(loc[p].url) = loc[p].state /\ loc[p].url.state # loc[p].state

C28_NotConfiguredReached ==
  \E p \in Procs :
    /\ Finished(p, "oauth_start") /\ result[p] = ErrNotConfigured("github")
    /\ settings["github"].redirect_uri = None /\ req[p].redirect_uri = None

\* the calls the callback of handler p has made to the provider
Called(p, call) == \E i \in 1..Len(loc[p].http) : loc[p].http[i].call = call
Failed(p, call) == \E i \in 1..Len(loc[p].http) : loc[p].http[i].call = call /\ loc[p].http[i].status_code # 200
\* the profile endpoint has answered the callback of handler p without a subject id
NoSubject(p) ==
  /\ Called(p, "profile") /\ ~Failed(p, "profile")
  /\ IF req[p].provider = "google" THEN loc[p].sub = None ELSE loc[p].github_id = 0
FailedExchange(p) == Failed(p, "token") \/ Failed(p, "profile") \/ (NoSubject(p) /\ pc[p] = "done")

\* C29: a callback whose token endpoint answers with another status than 200 fails "Failed to
\* exchange ... code.", one whose profile endpoint does fails "Failed to fetch ... profile.",
\* and one whose profile has no subject id fails "... profile missing id."; in each case no
\* profile is built and no token issued, and accounts are created or changed only by a callback
\* that has its profile.
C29_ExchangeFailures ==
  /\ [](\A p \in Procs : Callback(p) =>
          /\ Failed(p, "token") =>
               pc[p] = "done" /\ result[p] = ErrExchange(req[p].provider) /\ ~Called(p, "profile")
          /\ Failed(p, "profile") =>
               pc[p] = "done" /\ result[p] = ErrProfileFetch(req[p].provider)
          /\ NoSubject(p) =>
               \/ pc[p] = "done" /\ result[p] = ErrMissingId(req[p].provider)
               \/ pc[p] = "cb_emails"
          /\ FailedExchange(p) => req[p].profile = NoProfile /\ result[p].token = NoToken
          /\ pc[p] \in {"cb_token", "cb_profile", "cb_emails"} => req[p].profile = NoProfile)
  /\ [][\A p \in Procs :
          ((Callback(p) \/ pc[p] = "idle") /\ req'[p].op = "oauth_callback" /\ pc'[p] # pc[p]
           /\ (users' # users \/ nextId' # nextId \/ result'[p].token # NoToken))
            => req[p].profile # NoProfile /\ pc[p] \in {"oauth_update", "oauth_create"}]_vars

\* with an account there already, a callback has failed at the token endpoint
C29_Witness ==
  \E p \in Procs :
    /\ Finished(p, "oauth_callback") /\ Failed(p, "token")
    /\ result[p] = ErrExchange(req[p].provider) /\ users # {}

C29_ProfileFetchReached ==
  \E p \in Procs :
    Finished(p, "oauth_callback") /\ Failed(p, "profile") /\ result[p] = ErrProfileFetch("google")

C29_MissingIdReached ==
  \E p \in Procs :
    /\ Finished(p, "oauth_callback") /\ Called(p, "emails")
    /\ result[p] = ErrMissingId("github") /\ loc[p].listing # <<>>

\* the entries of a listing that are primary and verified
Eligible(entries) == {i \in 1..Len(entries) : entries[i].primary /\ entries[i].verified}
FirstEligibleEmail(entries) ==
  IF Eligible(entries) = {} THEN None
  ELSE entries[CHOOSE i \in Eligible(entries) : \A j \in Eligible(entries) : i <= j].email

\* C30: the callback queries GitHub's email listing exactly when the GitHub profile has no
\* email; the profile's email is then that of the first listed entry that is primary and
\* verified; with no such entry, or a listing that does not answer 200, the profile is built
\* with no email and login_with_oauth rejects it.
C30_GithubEmailFallback ==
  \A p \in Procs : Callback(p) =>
    LET fetched == Called(p, "profile") /\ ~Failed(p, "profile")
        expected == IF loc[p].listing_status = 200 THEN FirstEligibleEmail(loc[p].listing) ELSE None IN
      /\ (pc[p] = "cb_emails" \/ Called(p, "emails")) <=>
           (fetched /\ req[p].provider = "github" /\ loc[p].user_email = None)
      /\ (Called(p, "emails") /\ loc[p].github_id # 0) =>
           /\ req[p].profile = [provider |-> "github", provider_id |-> ToString(loc[p].github_id),
                                email |-> expected]
           /\ pc[p] \in {"cb_login", "oauth_update", "oauth_create", "done"}
           /\ expected = None => pc[p] = "cb_login" \/ (pc[p] = "done" /\ result[p] = ErrNoEmail)
           /\ (expected # None /\ pc[p] = "done") => result[p] # ErrNoEmail

\* the listing's first entry is primary but not verified: the second entry's email was taken
C30_Witness ==
  \E p \in Procs :
    /\ Finished(p, "oauth_callback") /\ Called(p, "emails") /\ Len(loc[p].listing) = 2
    /\ loc[p].listing[1].primary /\ ~loc[p].listing[1].verified
    /\ req[p].profile.email = loc[p].listing[2].email
    /\ result[p].token.sub = loc[p].listing[2].email

C30_NoEmailReached ==
  \E p \in Procs :
    /\ Finished(p, "oauth_callback") /\ Called(p, "emails") /\ loc[p].listing_status # 200
    /\ loc[p].github_id # 0 /\ result[p] = ErrNoEmail

\* C31: a send_otp_email call raises nothing: it returns (True, None) when the SMTP settings are
\* complete and every step of the SMTP session went through, and (False, error text) for
\* incomplete settings and for a failure to connect, to start TLS, to log in or to send.
C31_SendNeverRaises ==
  direct.fn = "send_otp_email" =>
    LET complete == /\ smtp.SMTP_SERVER # None /\ smtp.SMTP_USERNAME # None
                    /\ smtp.SMTP_PASSWORD # None /\ smtp.FROM_EMAIL # None IN
      /\ direct.raised = NoException
      /\ Len(direct.returned) = 2
      /\ (complete /\ direct.failure = None) => direct.returned = <<TRUE, None>>
      /\ ~(complete /\ direct.failure = None) =>
           /\ direct.returned[1] = FALSE /\ direct.returned[2] # None
           /\ direct.returned[2] = IF complete THEN SmtpError(direct.failure).message
                                   ELSE "SMTP settings are incomplete."

\* the server refused the login: the call returned (False, the error's text)
C31_Witness ==
  /\ direct.fn = "send_otp_email" /\ direct.failure = "login"
  /\ direct.returned = <<FALSE, SmtpError("login").message>>

C31_IncompleteReached ==
  /\ direct.fn = "send_otp_email" /\ smtp.SMTP_PASSWORD = None
  /\ direct.returned = <<FALSE, "SMTP settings are incomplete.">>

C31_SentReached ==
  direct.fn = "send_otp_email" /\ direct.returned = <<TRUE, None>> /\ direct.otp_code \in inbox[direct.email]

\* the number a string of digits writes
RECURSIVE Value(_)
Value(digits) == IF digits = <<>> THEN 0 ELSE 10 * Value(SubSeq(digits, 1, Len(digits) - 1)) + digits[Len(digits)]

\* C32: for a length of one or more, generate_otp returns exactly length characters, all
\* decimal digits, which write the number drawn (zeros in front kept); and every string of
\* length digits is a result the first call of a run can give.
C32_GenerateOtp ==
  /\ (direct.fn = "generate_otp" /\ direct.length >= 1) =>
       /\ Len(direct.returned) = direct.length
       /\ \A i \in 1..Len(direct.returned) : direct.returned[i] \in 0..9
       /\ Value(direct.returned) = direct.n
  /\ calls = 0 =>
       \A length \in 1..MaxLength : \A digits \in [1..length -> 0..9] :
         ENABLED (GenerateOtp(length) /\ direct'.returned = digits)

\* a code that starts with a zero
C32_Witness ==
  direct.fn = "generate_otp" /\ direct.length = 2 /\ direct.n = 7 /\ direct.returned = <<0, 7>>

\* a length of zero is not a valid one: the code has one character
C32_LengthZeroReached ==
  direct.fn = "generate_otp" /\ direct.length = 0 /\ direct.returned = <<0>>

\* C33: a token that login or login_with_oauth returns has as subject the email of the account
\* the call authenticated (the account of the request's email: for login a local, verified one
\* whose password verifies, for login_with_oauth one of the profile's provider), and as expiry
\* the time of the mint plus ACCESS_TOKEN_EXPIRE_MINUTES.
C33_TokenContents ==
  [][\A p \in Procs :
       (pc'[p] = "done" /\ pc[p] # "done" /\ req'[p].op \in {"login", "login_with_oauth"}
        /\ result'[p].token # NoToken) =>
         LET token == result'[p].token
             u == CHOOSE v \in users' \cup {NoUser} : v.email = token.sub IN
           /\ token.sub = req'[p].email /\ token.sub # None
           /\ u \in users'
           /\ req'[p].op = "login" =>
                IsLocal(u) /\ u.is_verified /\ verify_password(req'[p].password, u.hashed_password)
           /\ req'[p].op = "login_with_oauth" =>
                /\ token.sub = req'[p].profile.email /\ u.auth_provider = req'[p].profile.provider
                /\ u.provider_id = req'[p].profile.provider_id
           /\ token.exp = now + ACCESS_TOKEN_EXPIRE_MINUTES * 60]_vars

\* a login after the clock has moved: the expiry is counted from the time of the login
C33_Witness ==
  \E p \in Procs :
    /\ Finished(p, "login") /\ result[p].token.sub = req[p].email /\ now > 0
    /\ result[p].token.exp = now + ACCESS_TOKEN_EXPIRE_MINUTES * 60

C33_OAuthTokenReached ==
  \E p \in Procs :
    /\ Finished(p, "login_with_oauth") /\ result[p].token.sub = req[p].profile.email
    /\ result[p].token.exp = now + ACCESS_TOKEN_EXPIRE_MINUTES * 60

\* the callback of handler p presents a state generate_state produced, within its life
FreshCallback(p) ==
  /\ Callback(p) /\ req[p].state \in minted
  /\ HalfSeconds(req[p].state) <= 2 * OAUTH_STATE_TTL_SECONDS

\* C34: validating a state changes nothing the service keeps (the states handed out, the
\* settings, the accounts, the key/value store), and an unmodified state within its
\* time-to-live is accepted by every callback that presents it, whatever was done with it before.
C34_StateNotConsumed ==
  /\ [](\A p \in Procs : FreshCallback(p) =>
          /\ loc[p].state_error = NoResult
          /\ pc[p] = "done" => result[p] \notin {ErrState, ErrStateSignature, ErrStateExpired, ErrTypeError})
  /\ [][\A p \in Procs : (pc[p] = "idle" /\ req'[p].op = "oauth_callback") =>
          /\ minted' = minted /\ settings' = settings /\ users' = users /\ redis' = redis
          /\ \A q \in Procs : q # p => loc'[q] = loc[q]]_vars

\* a state that has already carried one callback through to an account is accepted again
C34_Witness ==
  \E p \in Procs :
    /\ FreshCallback(p) /\ pc[p] = "cb_token" /\ Cardinality(minted) = 1
    /\ \E u \in users : u.auth_provider # "local"

\* the state of handler p's callback was handed out for another provider or redirect override
Foreign(p) ==
  /\ \E m \in mintedFor : m.state = req[p].state
  /\ \A m \in mintedFor : m.state = req[p].state =>
       m.provider # req[p].provider \/ m.redirect_uri # req[p].redirect_uri

\* C35 (as the code has it): a state is not bound to the provider or the redirect it was handed
\* out for: within its time-to-live, exchange_code_for_profile accepts it for the other provider
\* and with another redirect override as well.
C35_StateNotBound ==
  \A p \in Procs : (FreshCallback(p) /\ Foreign(p)) =>
    /\ loc[p].state_error = NoResult
    /\ pc[p] = "done" => result[p] \notin {ErrState, ErrStateSignature, ErrStateExpired, ErrTypeError}

\* a state handed out for one provider has carried a login through the other provider
C35_Witness ==
  \E p \in Procs :
    /\ Finished(p, "oauth_callback") /\ Foreign(p) /\ result[p].token # NoToken
    /\ \A m \in mintedFor : m.provider # req[p].provider

\* C35 (as claimed): exchange_code_for_profile accepts a state only for the provider and the
\* redirect override it was handed out for.
C35_StateBoundToProvider ==
  \A p \in Procs : (Callback(p) /\ loc[p].state_error = NoResult) =>
    [state |-> req[p].state, provider |-> req[p].provider, redirect_uri |-> req[p].redirect_uri] \in mintedFor

\* handler p takes its delivery-failure rollback step (otp_service.invalidate) with the store up
Rollback(p) == pc[p] \in {"reg_invalidate", "res_invalidate"} /\ pc'[p] = "done" /\ redisUp

\* the store holds, for this email, a code another call than p stored and delivered
HoldsDeliveredCodeOfOther(p, email) ==
  /\ fresh[email].code # None
  /\ RedisGet(_otp_key(email)) = fresh[email].code
  /\ fresh[email].code # loc[p].otp_code

\* C36: the delivery-failure rollback of a register or resend_otp call never deletes a code
\* that a different call for the same email stored and delivered.
C36_RollbackSparesOtherCalls ==
  [][\A p \in Procs :
       (Rollback(p) /\ HoldsDeliveredCodeOfOther(p, req[p].email))
         => /\ _otp_key(req[p].email) \in DOMAIN redis'
            /\ redis'[_otp_key(req[p].email)].code = fresh[req[p].email].code]_vars

\* C37: a verify_otp call that ends in a failure has not consumed the OTP: its validate_otp
\* did not delete the code and return True.
C37_AllOrNothing ==
  \A p \in Procs :
    (Finished(p, "verify_otp") /\ result[p].status # 200) => loc[p].is_valid # "True"

\* C38: once an account is verified and active, no step of register, verify_otp, resend_otp,
\* login or login_with_oauth, successful or failing, leaves it unverified or inactive, or removes it.
C38_VerificationMonotonic ==
  [][\A u \in users : (u.is_verified /\ u.is_active) =>
       \E v \in users' : v.id = u.id /\ v.email = u.email /\ v.is_verified /\ v.is_active]_vars

\* a resend_otp call went through for an account that is verified and active
C38_Witness ==
  \E p \in Procs :
    /\ Finished(p, "resend_otp") /\ result[p] = Returned(NoToken)
    /\ \A q \in Procs \ {p} : pc[q] = "idle"
    /\ Account(req[p].email).is_verified /\ Account(req[p].email).is_active
    /\ verifiedBy[req[p].email] # None

\* a failing register call left a verified and active account as it was
C38_FailedRegisterReached ==
  \E p \in Procs :
    /\ Finished(p, "register") /\ result[p] = ErrExists
    /\ Account(req[p].email).is_verified /\ Account(req[p].email).is_active

\* C39: the key/value store holds an OTP record for an email only if an account with that
\* email exists.
C39_OtpOnlyForAccounts ==
  \A email \in Emails : _otp_key(email) \in DOMAIN redis => Account(email).id # 0

\* a code is stored for an account, and a resend_otp for an unknown email stored nothing
C39_Witness ==
  \E p \in Procs, email \in Emails :
    /\ Finished(p, "resend_otp") /\ result[p] = ErrNotFound /\ req[p].email # email
    /\ _otp_key(email) \in DOMAIN redis /\ Account(email).id # 0
    /\ _otp_key(req[p].email) \notin DOMAIN redis
====
